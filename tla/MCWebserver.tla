---------------------------- MODULE MCWebserver ----------------------------
(* The instance of Webserver that TLC explores: two commands that start a    *)
(* server and one that stops it, in any order and at any time.               *)
EXTENDS Webserver
CONSTANTS up1, up2, down
TwoStarts == {up1, up2}
OneStop   == {down}
FirstOne  == {up1}
=============================================================================

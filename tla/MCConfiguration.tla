-------------------------- MODULE MCConfiguration --------------------------
(* The instances of Configuration that TLC explores: files with lists and    *)
(* tags on either layer, and three requests for a head and two worker types. *)
EXTENDS Configuration, TLC
CONSTANTS head, small, large, r1, r2, r3
AllTypes      == {head, small, large}
ThreeRequests == {r1, r2, r3}
Tag     == "image_tag" :> "slim"
Digest  == "image_hash" :> "abc"
Urls    == "outbound_urls" :> <<"pypi">>
More    == "outbound_urls" :> <<"npm">>
Caps    == "capabilities" :> <<"vpn", "inet", "manifest-support">>
Subnet_ == "subnet_tag" :> "goth"
Prio    == "priority_subnet_tag" :> "mine"
Nothing == NoDefaults
Types(h, s, l) == head :> h @@ small :> s @@ large :> l
SomeFiles ==
    {[provider |-> p, types |-> Types(h, s, l)] :
        p \in {Tag, Tag @@ Urls, Tag @@ Caps @@ Urls, Digest @@ Prio @@ Urls},
        h \in {Nothing, Subnet_}, s \in {Nothing, More}, l \in {More, Digest, Prio, Caps @@ More}}
=============================================================================

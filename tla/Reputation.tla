----------------------------- MODULE Reputation -----------------------------
(***************************************************************************)
(* The local reputation database and the commands that write to it:        *)
(* ray_on_golem/reputation/updater.py (`reputation update`), cli.py        *)
(* (`block`, `unblock`), models.py and plugins/score.py.                   *)
(*                                                                         *)
(* Each command is a process of its own.  It reads a row, awaits, and      *)
(* saves the whole row it read with its own change: Model.save() without   *)
(* update_fields writes every column.  The rows are those of one network.  *)
(***************************************************************************)
EXTENDS Naturals, Sequences

CONSTANTS
    Providers,
    Blocks,         \* `block` commands
    Unblocks,       \* `unblock` commands
    Target,         \* the provider a command names
    Before,         \* the rows there are at first
    Reports,        \* the lists the Reputation System may answer with
    MaxScore,       \* the score 1.0
    Empty,          \* an entry without scores
    None            \* a null column, a missing row or entry

Commands == Blocks \cup Unblocks
Scores   == 0 .. MaxScore
Entries  == [rate : Scores \cup {None}, uptime : Scores \cup {None}]
Rows     == [rate : Scores \cup {None}, uptime : Scores \cup {None},
             until : {"never", "forever"}]

ASSUME ReputationAssumption ==
    /\ Blocks \cap Unblocks = {} /\ "updater" \notin Commands
    /\ Target \in [Commands -> Providers]
    /\ MaxScore \in Nat /\ None \notin Scores \cup Rows /\ Empty \notin Entries
    /\ Before \in [Providers -> Rows \cup {None}]
    /\ \A p \in Providers : Before[p] # None => Before[p].until = "never"
    /\ Reports \subseteq Seq([id : Providers, scores : Entries \cup {Empty}])

VARIABLES
    row,            \* NodeReputation of each provider
    updater,        \* where `reputation update` is
    data,           \* the entries of the download that are still ahead
    report,         \* history: the download
    created,        \* get_or_create created its row
    count,          \* cnt_added, cnt_updated, cnt_ignored, cnt_total
    command,        \* where each block or unblock is
    held,           \* the row each writer has read
    wanted,         \* history: the last block or unblock that was reported done
    overtaken,      \* history: writers whose row was saved by another one since
    raced           \* history: rows saved by a writer that was overtaken

updaterVars == <<updater, data, report, created, count>>
history     == <<wanted, overtaken, raced>>
repVars == <<row, updaterVars, command, held, history>>

Writers == Commands \cup {"updater"}
NewRow  == [rate |-> None, uptime |-> None, until |-> "never"]
Counts  == {"added", "updated", "ignored", "total"}

RepTypeOK ==
    /\ row \in [Providers -> Rows \cup {None}]
    /\ updater \in {"idle", "looping", "holding", "done", "failed"}
    /\ report \in Reports \cup {<<>>}
    /\ \E i \in 1 .. Len(report) + 1 : data = SubSeq(report, i, Len(report))
    /\ created \in BOOLEAN
    /\ count \in [Counts -> 0 .. Len(report)]
    /\ command \in [Commands -> {"idle", "holding", "done", "failed"}]
    /\ held \in [Writers -> Rows \cup {None}]
    /\ wanted \in [Providers -> {"nothing", "blocked", "unblocked"}]
    /\ overtaken \subseteq Writers
    /\ raced \subseteq Providers

RepInit ==
    /\ row = Before
    /\ updater = "idle" /\ data = <<>> /\ report = <<>> /\ created = FALSE
    /\ count = [c \in Counts |-> 0]
    /\ command = [c \in Commands |-> "idle"]
    /\ held = [w \in Writers |-> None]
    /\ wanted = [p \in Providers |-> "nothing"]
    /\ overtaken = {} /\ raced = {}

-----------------------------------------------------------------------------
(* models.py: every query has its own `now`, which lies between the two dates *)

Blacklisted(p) == row[p] # None /\ row[p].until = "forever"
Listed(p)      == row[p] # None /\ row[p].until = "never"

(* ReputationScorer with its default weights, 1.0 and 0.5, times three halves; *)
(* scores of zero where get_blacklisted(False) finds no row                  *)
Score(p) ==
    LET or0(x) == IF x = None THEN 0 ELSE x
        sum    == 2 * or0(row[p].uptime) + or0(row[p].rate)
    IN  IF ~Listed(p) THEN 0 ELSE IF sum <= 3 * MaxScore THEN sum ELSE 3 * MaxScore

-----------------------------------------------------------------------------
(* Reading a row, get_or_create, and saving it. *)

GetOrCreate(w, p) ==
    /\ row' = [row EXCEPT ![p] = IF @ = None THEN NewRow ELSE @]
    /\ held' = [held EXCEPT ![w] = row'[p]]
    /\ overtaken' = overtaken \ {w}

Holds(w, p) ==
    IF w = "updater" THEN updater = "holding" /\ Head(data).id = p
                     ELSE command[w] = "holding" /\ Target[w] = p

(* Mutant: only the columns that changed are kept. *)
SaveAnew(w, p, new) ==
    /\ row' = [row EXCEPT ![p] = [NewRow EXCEPT !.rate = new.rate, !.uptime = new.uptime]]
    /\ held' = [held EXCEPT ![w] = None]
    /\ raced' = IF w \in overtaken THEN raced \cup {p} ELSE raced
    /\ overtaken' = (overtaken \cup {v \in Writers : Holds(v, p)}) \ {w}

Save(w, p, new) ==
    /\ row' = [row EXCEPT ![p] = new]
    /\ held' = [held EXCEPT ![w] = None]
    /\ raced' = IF w \in overtaken THEN raced \cup {p} ELSE raced
    /\ overtaken' = (overtaken \cup {v \in Writers : Holds(v, p)}) \ {w}

-----------------------------------------------------------------------------
(* ReputationUpdater.update *)

Plus(c, ks) == [k \in Counts |-> IF k \in ks THEN c[k] + 1 ELSE c[k]]

DownloadFails ==
    /\ updater = "idle"
    /\ updater' = "failed"
    /\ UNCHANGED <<row, data, report, created, count, command, held, history>>

Download ==
    /\ updater = "idle"
    /\ updater' = "looping"
    /\ data' \in Reports
    /\ report' = data'
    /\ UNCHANGED <<row, created, count, command, held, history>>

Ignore ==
    /\ updater = "looping" /\ data # <<>>
    /\ Head(data).scores = Empty
    /\ data' = Tail(data)
    /\ count' = Plus(count, {"total", "ignored"})
    /\ UNCHANGED <<row, updater, report, created, command, held, history>>

ReadReputation ==
    /\ updater = "looping" /\ data # <<>>
    /\ Head(data).scores # Empty
    /\ GetOrCreate("updater", Head(data).id)
    /\ created' = (row[Head(data).id] = None)
    /\ updater' = "holding"
    /\ count' = Plus(count, {"total"})
    /\ UNCHANGED <<data, report, command, wanted, raced>>

(* Mutant: an uptime that did not change also makes up for a new rate. *)
RatedByUptime(r, e) ==
    [r EXCEPT !.rate = IF e.rate # None /\ e.uptime # None /\ e.uptime # r.uptime
                         THEN e.rate ELSE @,
              !.uptime = IF e.uptime # None THEN e.uptime ELSE @]

(* The row with the scores that were reported *)
Rated(r, e) ==
    [r EXCEPT !.rate = IF e.rate # None THEN e.rate ELSE @,
              !.uptime = IF e.uptime # None THEN e.uptime ELSE @]

StoreReputation ==
    LET p   == Head(data).id
        new == Rated(held["updater"], Head(data).scores)
        upd == new # held["updater"]
    IN  /\ updater = "holding"
        /\ IF upd THEN Save("updater", p, new)
                  ELSE /\ held' = [held EXCEPT !["updater"] = None]
                       /\ UNCHANGED <<row, overtaken, raced>>
        /\ count' = Plus(count, IF created THEN {"added"}
                                ELSE IF upd THEN {"updated"} ELSE {})
        /\ updater' = "looping" /\ data' = Tail(data)
        /\ UNCHANGED <<report, created, command, wanted>>

UpdateDone ==
    /\ updater = "looping" /\ data = <<>>
    /\ updater' = "done"
    /\ UNCHANGED <<row, data, report, created, count, command, held, history>>

-----------------------------------------------------------------------------
(* block and unblock *)

ReadToBlock(c) ==
    /\ c \in Blocks /\ command[c] = "idle"
    /\ GetOrCreate(c, Target[c])
    /\ command' = [command EXCEPT ![c] = "holding"]
    /\ UNCHANGED <<updaterVars, wanted, raced>>

ReadToUnblock(c) ==
    /\ c \in Unblocks /\ command[c] = "idle"
    /\ row[Target[c]] # None
    /\ held' = [held EXCEPT ![c] = row[Target[c]]]
    /\ command' = [command EXCEPT ![c] = "holding"]
    /\ UNCHANGED <<row, updaterVars, history>>

(* "No reputation record found" *)
NothingToUnblock(c) ==
    /\ c \in Unblocks /\ command[c] = "idle"
    /\ row[Target[c]] = None
    /\ command' = [command EXCEPT ![c] = "failed"]
    /\ UNCHANGED <<row, updaterVars, held, history>>

SaveBlock(c) ==
    LET p == Target[c] IN
    /\ command[c] = "holding"
    /\ Save(c, p, [held[c] EXCEPT !.until = IF c \in Blocks THEN "forever" ELSE "never"])
    /\ command' = [command EXCEPT ![c] = "done"]
    /\ wanted' = [wanted EXCEPT ![p] = IF c \in Blocks THEN "blocked" ELSE "unblocked"]
    /\ UNCHANGED updaterVars

RepNext ==
    \/ DownloadFails \/ Download \/ Ignore \/ ReadReputation \/ StoreReputation \/ UpdateDone
    \/ \E c \in Commands :
         ReadToBlock(c) \/ ReadToUnblock(c) \/ NothingToUnblock(c) \/ SaveBlock(c)

RepSpec == RepInit /\ [][RepNext]_repVars

-----------------------------------------------------------------------------
(* Properties. *)

(* A provider that `block` reported blocked stays on the blacklist until it is *)
(* unblocked: "Add a node to blacklist." (cli.py)                             *)
BlockSticks ==
    \A p \in Providers : wanted[p] = "blocked" => Blacklisted(p)

(* It does, and an unblocked one stays off it, unless a writer saved a row     *)
(* that another one had saved since it read it: no update resets what it does  *)
(* not report.                                                                *)
BlockSticksAlone ==
    \A p \in Providers \ raced :
        /\ wanted[p] = "blocked" => Blacklisted(p)
        /\ wanted[p] # "blocked" => ~Blacklisted(p)

(* After an update the scores of a provider are those that were reported last, *)
(* but for rows that were raced for, and each entry was counted: at most once   *)
(* as added, updated or ignored.                                              *)
UpdateStoresScores ==
    updater = "done" =>
        /\ \A i \in 1 .. Len(report) :
             LET p == report[i].id IN
             /\ report[i].scores # Empty /\ p \notin raced
             /\ \A j \in i + 1 .. Len(report) : report[j].id # p \/ report[j].scores = Empty
             => /\ report[i].scores.rate \in {None, row[p].rate}
                /\ report[i].scores.uptime \in {None, row[p].uptime}
        /\ count["total"] = Len(report)
        /\ count["added"] + count["updated"] + count["ignored"] <= Len(report)

(* Whatever its scores, a blocked provider is ranked after everybody else.    *)
BlockedRankLast ==
    \A p, q \in Providers : Blacklisted(p) => Score(p) <= Score(q)
=============================================================================

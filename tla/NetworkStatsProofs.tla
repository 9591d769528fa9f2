------------------------- MODULE NetworkStatsProofs -------------------------
(***************************************************************************)
(* Proofs about Reputation, for any providers, commands and downloads: a   *)
(* row that is not raced for keeps what block and unblock made of it and   *)
(* gets the scores that were reported.  Then about NetworkStats, for any   *)
(* proposals and any commands that write to the database meanwhile.        *)
(***************************************************************************)
EXTENDS NetworkStats, TLAPS, FiniteSetTheorems

Reported == [id : Providers, scores : Entries \cup {Empty}]

(* The part of the type invariant that the rows depend on *)
RowTypes ==
    /\ row \in [Providers -> Rows \cup {None}]
    /\ held \in [Writers -> Rows \cup {None}]
    /\ updater \in {"idle", "looping", "holding", "done", "failed"}
    /\ command \in [Commands -> {"idle", "holding", "done", "failed"}]
    /\ data \in Seq(Reported)
    /\ updater = "holding" => data # <<>> /\ Head(data).scores # Empty
    /\ wanted \in [Providers -> {"nothing", "blocked", "unblocked"}]
    /\ overtaken \subseteq Writers /\ raced \subseteq Providers

(* A writer that was not overtaken holds the row as it is *)
HeldInv ==
    \A w \in Writers, p \in Providers : Holds(w, p) =>
        /\ held[w] \in Rows /\ row[p] \in Rows
        /\ w \notin overtaken => held[w] = row[p]

RepInv == RowTypes /\ HeldInv /\ BlockSticksAlone

-----------------------------------------------------------------------------
(* Rows. *)

LEMMA RowFacts ==
    /\ NewRow \in Rows /\ NewRow.until = "never"
    /\ \A r \in Rows, e \in Entries :
         Rated(r, e) \in Rows /\ Rated(r, e).until = r.until
    /\ \A r \in Rows, u \in {"never", "forever"} :
         [r EXCEPT !.until = u] \in Rows /\ [r EXCEPT !.until = u].until = u
<1>1. NewRow \in Rows /\ NewRow.until = "never"
      BY DEF NewRow, Rows
<1>2. ASSUME NEW r \in Rows, NEW e \in Entries
      PROVE  Rated(r, e) \in Rows /\ Rated(r, e).until = r.until
      BY DEF Rated, Rows, Entries
<1>3. ASSUME NEW r \in Rows, NEW u \in {"never", "forever"}
      PROVE  [r EXCEPT !.until = u] \in Rows /\ [r EXCEPT !.until = u].until = u
      BY DEF Rows
<1> QED  BY <1>1, <1>2, <1>3

(* What the updater works on. *)
LEMMA HeadOfData ==
    ASSUME RowTypes, data # <<>>
    PROVE  /\ Head(data) \in Reported /\ Head(data).id \in Providers
           /\ Head(data).scores \in Entries \cup {Empty}
           /\ Tail(data) \in Seq(Reported)
<1>1. data \in Seq(Reported)
      BY DEF RowTypes
<1>2. Head(data) \in Reported /\ Tail(data) \in Seq(Reported)
      BY <1>1
<1> QED  BY <1>2 DEF Reported

(* A writer that holds a row holds one provider's. *)
LEMMA HoldsOne ==
    ASSUME NEW w \in Writers, NEW p \in Providers, NEW q \in Providers, Holds(w, p), Holds(w, q)
    PROVE  p = q
BY DEF Holds

-----------------------------------------------------------------------------
(* Reading and saving, whoever does it: w goes from not holding to holding p, *)
(* or back, and what the others hold does not change.                        *)

LEMMA ReadStep ==
    ASSUME RepInv, NEW w \in Writers, NEW p \in Providers, GetOrCreate(w, p),
           wanted' = wanted, raced' = raced,
           \A v \in Writers \ {w}, q \in Providers : Holds(v, q)' <=> Holds(v, q),
           \A q \in Providers : Holds(w, q)' => q = p
    PROVE  /\ row' \in [Providers -> Rows \cup {None}]
           /\ held' \in [Writers -> Rows \cup {None}]
           /\ overtaken' \subseteq Writers
           /\ HeldInv' /\ BlockSticksAlone'
<1>1. /\ row'[p] \in Rows
      /\ row[p] # None => row'[p] = row[p]
      /\ row[p] = None => row'[p] = NewRow
      /\ \A q \in Providers \ {p} : row'[q] = row[q]
      /\ row' \in [Providers -> Rows \cup {None}]
      BY RowFacts DEF GetOrCreate, RepInv, RowTypes
<1>2. /\ held'[w] = row'[p] /\ \A v \in Writers \ {w} : held'[v] = held[v]
      /\ held' \in [Writers -> Rows \cup {None}]
      BY <1>1 DEF GetOrCreate, RepInv, RowTypes
<1>3. overtaken' = overtaken \ {w}
      BY DEF GetOrCreate
<1>4. HeldInv'
  <2> SUFFICES ASSUME NEW v \in Writers, NEW q \in Providers, Holds(v, q)'
               PROVE  /\ held'[v] \in Rows /\ row'[q] \in Rows
                      /\ v \notin overtaken' => held'[v] = row'[q]
      BY DEF HeldInv
  <2>1. CASE v = w
    <3>1. q = p
          BY <2>1 DEF Holds
    <3> QED  BY <1>1, <1>2, <2>1, <3>1
  <2>2. CASE v # w
    <3>1. held[v] \in Rows /\ row[q] \in Rows /\ (v \notin overtaken => held[v] = row[q])
          BY <2>2 DEF RepInv, HeldInv
    <3>2. row[q] # None
          BY <3>1, ReputationAssumption
    <3>3. row'[q] = row[q]
          BY <1>1, <3>2
    <3> QED  BY <1>2, <1>3, <2>2, <3>1, <3>3
  <2> QED  BY <2>1, <2>2
<1>5. BlockSticksAlone'
  <2> SUFFICES ASSUME NEW q \in Providers, q \notin raced
               PROVE  Blacklisted(q)' <=> Blacklisted(q)
      BY DEF RepInv, BlockSticksAlone
  <2>1. CASE q = p /\ row[p] = None
        BY <1>1, <2>1, RowFacts DEF Blacklisted
  <2>2. CASE ~(q = p /\ row[p] = None)
    <3>1. row'[q] = row[q]
          BY <1>1, <2>2
    <3> QED  BY <3>1 DEF Blacklisted
  <2> QED  BY <2>1, <2>2
<1> QED  BY <1>1, <1>2, <1>3, <1>4, <1>5 DEF RepInv, RowTypes

LEMMA SaveStep ==
    ASSUME RepInv, NEW w \in Writers, NEW p \in Providers, NEW new \in Rows, Save(w, p, new),
           \A v \in Writers \ {w}, q \in Providers : Holds(v, q)' <=> Holds(v, q),
           \A q \in Providers : ~Holds(w, q)',
           \A q \in Providers \ {p} : wanted'[q] = wanted[q],
           p \notin raced' => (wanted'[p] = "blocked" <=> new.until = "forever")
    PROVE  /\ row' \in [Providers -> Rows \cup {None}]
           /\ held' \in [Writers -> Rows \cup {None}]
           /\ overtaken' \subseteq Writers /\ raced' \subseteq Providers
           /\ HeldInv' /\ BlockSticksAlone'
<1>1. /\ row'[p] = new /\ \A q \in Providers \ {p} : row'[q] = row[q]
      /\ row' \in [Providers -> Rows \cup {None}]
      BY DEF Save, RepInv, RowTypes
<1>2. /\ \A v \in Writers \ {w} : held'[v] = held[v]
      /\ held' \in [Writers -> Rows \cup {None}]
      BY DEF Save, RepInv, RowTypes
<1>3. /\ overtaken' = (overtaken \cup {v \in Writers : Holds(v, p)}) \ {w}
      /\ raced \subseteq raced' /\ raced' \subseteq Providers
      BY DEF Save, RepInv, RowTypes
<1>4. HeldInv'
  <2> SUFFICES ASSUME NEW v \in Writers, NEW q \in Providers, Holds(v, q)'
               PROVE  /\ held'[v] \in Rows /\ row'[q] \in Rows
                      /\ v \notin overtaken' => held'[v] = row'[q]
      BY DEF HeldInv
  <2>1. v # w /\ Holds(v, q)
        OBVIOUS
  <2>2. held[v] \in Rows /\ row[q] \in Rows /\ (v \notin overtaken => held[v] = row[q])
        BY <2>1 DEF RepInv, HeldInv
  <2>3. CASE q = p
        BY <1>1, <1>2, <1>3, <2>1, <2>2, <2>3
  <2>4. CASE q # p
        BY <1>1, <1>2, <1>3, <2>1, <2>2, <2>4
  <2> QED  BY <2>3, <2>4
<1>5. BlockSticksAlone'
  <2> SUFFICES ASSUME NEW q \in Providers, q \notin raced'
               PROVE  wanted'[q] = "blocked" <=> Blacklisted(q)'
      BY DEF BlockSticksAlone
  <2>1. CASE q = p
        BY <1>1, <2>1, ReputationAssumption DEF Blacklisted
  <2>2. CASE q # p
        BY <1>1, <1>3, <2>2 DEF RepInv, BlockSticksAlone, Blacklisted
  <2> QED  BY <2>1, <2>2
<1> QED  BY <1>1, <1>2, <1>3, <1>4, <1>5 DEF RepInv, RowTypes

-----------------------------------------------------------------------------
(* The steps of the updater and of the commands. *)

LEMMA RepInvInit == RepInit => RepInv
<1> SUFFICES ASSUME RepInit PROVE RepInv
    OBVIOUS
<1>1. RowTypes
      BY ReputationAssumption DEF RepInit, RowTypes
<1>2. HeldInv
      BY DEF RepInit, HeldInv, Holds, Writers
<1>3. BlockSticksAlone
      BY ReputationAssumption DEF RepInit, BlockSticksAlone, Blacklisted
<1> QED  BY <1>1, <1>2, <1>3 DEF RepInv

(* Steps that leave the rows and their writers alone. *)
LEMMA QuietStep ==
    ASSUME RepInv, UNCHANGED <<row, command, held, history>>,
           updater # "holding", updater' # "holding", RowTypes'
    PROVE  RepInv'
<1>1. \A w \in Writers, p \in Providers : Holds(w, p)' => Holds(w, p)
      BY DEF Holds
<1>2. HeldInv'
      BY <1>1 DEF RepInv, HeldInv, history
<1>3. BlockSticksAlone'
      BY DEF RepInv, BlockSticksAlone, Blacklisted, history
<1> QED  BY <1>2, <1>3 DEF RepInv

LEMMA UpdaterStep ==
    ASSUME RepInv,
           DownloadFails \/ Download \/ Ignore \/ ReadReputation \/ StoreReputation \/ UpdateDone
    PROVE  RepInv'
<1> USE DEF history
<1>1. CASE DownloadFails \/ UpdateDone
  <2>1. RowTypes'
        BY <1>1 DEF DownloadFails, UpdateDone, RepInv, RowTypes
  <2> QED  BY <1>1, <2>1, QuietStep DEF DownloadFails, UpdateDone
<1>2. CASE Download
  <2>1. data' \in Seq(Reported)
        BY <1>2, ReputationAssumption DEF Download, Reported
  <2>2. RowTypes'
        BY <1>2, <2>1 DEF Download, RepInv, RowTypes
  <2> QED  BY <1>2, <2>2, QuietStep DEF Download
<1>3. CASE Ignore
  <2>1. data' \in Seq(Reported)
        BY <1>3, HeadOfData DEF Ignore, RepInv
  <2>2. RowTypes'
        BY <1>3, <2>1 DEF Ignore, RepInv, RowTypes
  <2> QED  BY <1>3, <2>2, QuietStep DEF Ignore
<1>4. CASE ReadReputation
  <2> DEFINE p == Head(data).id
  <2>1. p \in Providers /\ "updater" \in Writers
        BY <1>4, HeadOfData DEF ReadReputation, RepInv, Writers
  <2>2. \A v \in Writers \ {"updater"}, q \in Providers : Holds(v, q)' <=> Holds(v, q)
        BY <1>4 DEF ReadReputation, Holds
  <2>3. \A q \in Providers : Holds("updater", q)' => q = p
        BY <1>4 DEF ReadReputation, Holds
  <2>4. GetOrCreate("updater", p) /\ UNCHANGED <<wanted, raced>>
        BY <1>4 DEF ReadReputation
  <2> HIDE DEF p
  <2>5. /\ row' \in [Providers -> Rows \cup {None}]
        /\ held' \in [Writers -> Rows \cup {None}]
        /\ overtaken' \subseteq Writers
        /\ HeldInv' /\ BlockSticksAlone'
        BY <2>1, <2>2, <2>3, <2>4, ReadStep
  <2>6. RowTypes'
        BY <1>4, <2>5 DEF ReadReputation, RepInv, RowTypes
  <2> QED  BY <2>5, <2>6 DEF RepInv
<1>5. CASE StoreReputation
  <2> DEFINE p   == Head(data).id
             new == Rated(held["updater"], Head(data).scores)
  <2>1. data # <<>> /\ updater = "holding" /\ "updater" \in Writers
        BY <1>5 DEF StoreReputation, RepInv, RowTypes, Writers
  <2>2. p \in Providers /\ Tail(data) \in Seq(Reported) /\ Holds("updater", p)
        BY <2>1, HeadOfData DEF RepInv, Holds
  <2>3. /\ held["updater"] \in Rows /\ row[p] \in Rows
        /\ "updater" \notin overtaken => held["updater"] = row[p]
        BY <2>1, <2>2 DEF RepInv, HeldInv
  <2>4. new \in Rows /\ new.until = held["updater"].until
    <3>1. Head(data).scores \in Entries
          BY <2>1, HeadOfData DEF RepInv, RowTypes
    <3> QED  BY <2>3, <3>1, RowFacts
  <2>5. \A v \in Writers \ {"updater"}, q \in Providers : Holds(v, q)' <=> Holds(v, q)
        BY <1>5 DEF StoreReputation, Holds
  <2>6. \A q \in Providers : ~Holds("updater", q)'
        BY <1>5 DEF StoreReputation, Holds
  <2>7. /\ updater' = "looping" /\ data' = Tail(data) /\ UNCHANGED <<command, wanted>>
        BY <1>5 DEF StoreReputation
  <2>8. \/ Save("updater", p, new)
        \/ /\ held' = [held EXCEPT !["updater"] = None]
           /\ UNCHANGED <<row, overtaken, raced>>
        BY <1>5 DEF StoreReputation
  <2> HIDE DEF p, new
  <2>9. CASE Save("updater", p, new)
    <3>1. p \notin raced' => (wanted'[p] = "blocked" <=> new.until = "forever")
          BY <2>2, <2>3, <2>4, <2>7, <2>9, ReputationAssumption
             DEF Save, RepInv, BlockSticksAlone, Blacklisted
    <3>2. /\ row' \in [Providers -> Rows \cup {None}]
          /\ held' \in [Writers -> Rows \cup {None}]
          /\ overtaken' \subseteq Writers /\ raced' \subseteq Providers
          /\ HeldInv' /\ BlockSticksAlone'
          BY <2>1, <2>2, <2>4, <2>5, <2>6, <2>7, <2>9, <3>1, SaveStep
    <3>3. RowTypes'
          BY <2>2, <2>7, <3>2 DEF RepInv, RowTypes
    <3> QED  BY <3>2, <3>3 DEF RepInv
  <2>10. CASE held' = [held EXCEPT !["updater"] = None] /\ UNCHANGED <<row, overtaken, raced>>
    <3>1. held' \in [Writers -> Rows \cup {None}]
          BY <2>10 DEF RepInv, RowTypes
    <3>2. RowTypes'
          BY <2>2, <2>7, <2>10, <3>1 DEF RepInv, RowTypes
    <3>3. \A v \in Writers \ {"updater"} : held'[v] = held[v]
          BY <2>10 DEF RepInv, RowTypes
    <3>4. HeldInv'
          BY <2>5, <2>6, <2>10, <3>3 DEF RepInv, HeldInv
    <3>5. BlockSticksAlone'
          BY <2>7, <2>10 DEF RepInv, BlockSticksAlone, Blacklisted
    <3> QED  BY <3>2, <3>4, <3>5 DEF RepInv
  <2> QED  BY <2>8, <2>9, <2>10
<1> QED  BY <1>1, <1>2, <1>3, <1>4, <1>5

LEMMA CommandStep ==
    ASSUME RepInv, NEW c \in Commands,
           ReadToBlock(c) \/ ReadToUnblock(c) \/ NothingToUnblock(c) \/ SaveBlock(c)
    PROVE  RepInv'
<1> DEFINE p == Target[c]
<1> USE DEF history, updaterVars
<1>1. p \in Providers /\ c \in Writers /\ c # "updater"
      BY ReputationAssumption DEF Writers
<1>2. \A v \in Writers \ {c}, q \in Providers : Holds(v, q)' <=> Holds(v, q)
  <2>1. /\ UNCHANGED <<updater, data>>
        /\ \A v \in Writers \ {c, "updater"} : command'[v] = command[v]
        BY DEF ReadToBlock, ReadToUnblock, NothingToUnblock, SaveBlock, RepInv, RowTypes,
               Writers
  <2> QED  BY <2>1 DEF Holds
<1>3. \A q \in Providers : Holds(c, q) => q = p
      BY <1>1 DEF Holds
<1>4. \A q \in Providers : Holds(c, q)' => q = p
      BY <1>1 DEF Holds
<1>5. CASE ReadToBlock(c)
  <2>1. GetOrCreate(c, p) /\ UNCHANGED <<updater, data, wanted, raced>>
        BY <1>5 DEF ReadToBlock
  <2> HIDE DEF p
  <2>2. /\ row' \in [Providers -> Rows \cup {None}]
        /\ held' \in [Writers -> Rows \cup {None}]
        /\ overtaken' \subseteq Writers
        /\ HeldInv' /\ BlockSticksAlone'
        BY <1>1, <1>2, <1>4, <2>1, ReadStep
  <2>3. command' \in [Commands -> {"idle", "holding", "done", "failed"}]
        BY <1>5 DEF ReadToBlock, RepInv, RowTypes
  <2>4. RowTypes'
        BY <2>1, <2>2, <2>3 DEF RepInv, RowTypes
  <2> QED  BY <2>2, <2>4 DEF RepInv
<1>6. CASE ReadToUnblock(c)
  <2>1. row[p] \in Rows /\ UNCHANGED <<row, updater, data, wanted, overtaken, raced>>
        BY <1>1, <1>6 DEF ReadToUnblock, RepInv, RowTypes
  <2>2. /\ held' \in [Writers -> Rows \cup {None}]
        /\ held'[c] = row[p] /\ \A v \in Writers \ {c} : held'[v] = held[v]
        BY <1>1, <1>6, <2>1 DEF ReadToUnblock, RepInv, RowTypes
  <2>3. command' \in [Commands -> {"idle", "holding", "done", "failed"}]
        BY <1>6 DEF ReadToUnblock, RepInv, RowTypes
  <2>4. RowTypes'
        BY <2>1, <2>2, <2>3 DEF RepInv, RowTypes
  <2>5. HeldInv'
    <3> SUFFICES ASSUME NEW v \in Writers, NEW q \in Providers, Holds(v, q)'
                 PROVE  /\ held'[v] \in Rows /\ row'[q] \in Rows
                        /\ v \notin overtaken' => held'[v] = row'[q]
        BY DEF HeldInv
    <3>1. CASE v = c
      <4>1. q = p
            BY <1>1, <3>1 DEF Holds
      <4> QED  BY <2>1, <2>2, <3>1, <4>1
    <3>2. CASE v # c
          BY <1>2, <2>1, <2>2, <3>2 DEF RepInv, HeldInv
    <3> QED  BY <3>1, <3>2
  <2>6. BlockSticksAlone'
        BY <2>1 DEF RepInv, BlockSticksAlone, Blacklisted
  <2> QED  BY <2>4, <2>5, <2>6 DEF RepInv
<1>7. CASE NothingToUnblock(c)
  <2>1. /\ UNCHANGED <<row, updater, data, held, wanted, overtaken, raced>>
        /\ command' = [command EXCEPT ![c] = "failed"]
        BY <1>7 DEF NothingToUnblock
  <2>2. \A q \in Providers : ~Holds(c, q)'
        BY <1>1, <2>1 DEF Holds, RepInv, RowTypes
  <2>3. RowTypes'
        BY <2>1 DEF RepInv, RowTypes
  <2>4. HeldInv'
        BY <1>2, <2>1, <2>2 DEF RepInv, HeldInv
  <2>5. BlockSticksAlone'
        BY <2>1 DEF RepInv, BlockSticksAlone, Blacklisted
  <2> QED  BY <2>3, <2>4, <2>5 DEF RepInv
<1>8. CASE SaveBlock(c)
  <2> DEFINE u   == IF c \in Blocks THEN "forever" ELSE "never"
             new == [held[c] EXCEPT !.until = u]
  <2>1. Holds(c, p)
        BY <1>1, <1>8 DEF SaveBlock, Holds
  <2>2. held[c] \in Rows
        BY <1>1, <2>1 DEF RepInv, HeldInv
  <2>3. new \in Rows /\ new.until = u
    <3>1. u \in {"never", "forever"}
          OBVIOUS
    <3> HIDE DEF u
    <3> QED  BY <2>2, <3>1, SMT DEF Rows
  <2>4. /\ Save(c, p, new) /\ UNCHANGED <<updater, data>>
        /\ command' = [command EXCEPT ![c] = "done"]
        /\ wanted' = [wanted EXCEPT ![p] = IF c \in Blocks THEN "blocked" ELSE "unblocked"]
        BY <1>8 DEF SaveBlock
  <2>5. wanted'[p] = "blocked" <=> new.until = "forever"
        BY <1>1, <2>3, <2>4 DEF RepInv, RowTypes
  <2>6. \A q \in Providers \ {p} : wanted'[q] = wanted[q]
        BY <2>4 DEF RepInv, RowTypes
  <2>7. \A q \in Providers : ~Holds(c, q)'
        BY <1>1, <2>4 DEF Holds, RepInv, RowTypes
  <2> HIDE DEF p, new
  <2>8. /\ row' \in [Providers -> Rows \cup {None}]
        /\ held' \in [Writers -> Rows \cup {None}]
        /\ overtaken' \subseteq Writers /\ raced' \subseteq Providers
        /\ HeldInv' /\ BlockSticksAlone'
        BY <1>1, <1>2, <2>3, <2>4, <2>5, <2>6, <2>7, SaveStep
  <2>9. RowTypes'
        BY <2>4, <2>8 DEF RepInv, RowTypes
  <2> QED  BY <2>8, <2>9 DEF RepInv
<1> QED  BY <1>5, <1>6, <1>7, <1>8

LEMMA RepInvStep == RepInv /\ [RepNext]_repVars => RepInv'
<1> SUFFICES ASSUME RepInv, [RepNext]_repVars PROVE RepInv'
    OBVIOUS
<1>1. CASE UNCHANGED repVars
      BY <1>1 DEF repVars, updaterVars, history, RepInv, RowTypes, HeldInv, Holds,
                  BlockSticksAlone, Blacklisted
<1>2. CASE RepNext
      BY <1>2, UpdaterStep, CommandStep DEF RepNext
<1> QED  BY <1>1, <1>2

-----------------------------------------------------------------------------
(* The scores: how far the update is in its download, and what it has stored. *)

Passed == Len(report) - Len(data)

DataInv ==
    /\ report \in Reports \cup {<<>>} /\ Len(data) <= Len(report)
    /\ \A i \in 1 .. Len(data) : data[i] = report[Passed + i]
    /\ updater = "idle" => report = <<>>
    /\ updater = "done" => data = <<>>

CountInv ==
    /\ created \in BOOLEAN /\ count \in [Counts -> Nat]
    /\ count["total"] = IF updater = "holding" THEN Passed + 1 ELSE Passed
    /\ count["added"] + count["updated"] + count["ignored"] <= Passed

(* Whoever saved the row since the updater read it has not changed its scores,  *)
(* or it is raced for                                                         *)
SameScores(r, q) == r # None => q # None /\ q.rate = r.rate /\ q.uptime = r.uptime

HeldScores ==
    \A p \in Providers \ raced :
        Holds("updater", p) => SameScores(row[p], held["updater"])

(* The entry was stored and not replaced by another one for that provider *)
Stored(i) ==
    LET p == report[i].id IN
    /\ report[i].scores # Empty /\ p \notin raced
    /\ \A j \in i + 1 .. Passed : report[j].id # p \/ report[j].scores = Empty
    => /\ row[p] # None
       /\ report[i].scores.rate \in {None, row[p].rate}
       /\ report[i].scores.uptime \in {None, row[p].uptime}

ScoresInv == DataInv /\ CountInv /\ HeldScores /\ \A i \in 1 .. Passed : Stored(i)

(* The entry that the updater is at. *)
LEMMA Entry ==
    ASSUME RowTypes, DataInv
    PROVE  /\ report \in Seq(Reported) /\ Len(report) \in Nat /\ Len(data) \in Nat
           /\ Passed \in 0 .. Len(report)
           /\ data # <<>> =>
                /\ Passed + 1 \in 1 .. Len(report) /\ Head(data) = report[Passed + 1]
                /\ Len(Tail(data)) = Len(data) - 1
                /\ \A i \in 1 .. Len(Tail(data)) : Tail(data)[i] = data[i + 1]
<1>1. report \in Seq(Reported) /\ data \in Seq(Reported)
  <2>1. Reports \subseteq Seq(Reported)
        BY ReputationAssumption DEF Reported
  <2>2. <<>> \in Seq(Reported)
        OBVIOUS
  <2> QED  BY <2>1, <2>2 DEF DataInv, RowTypes
<1>2. Len(report) \in Nat /\ Len(data) \in Nat /\ Passed \in 0 .. Len(report)
      BY <1>1 DEF DataInv, Passed
<1>3. ASSUME data # <<>>
      PROVE  /\ Passed + 1 \in 1 .. Len(report) /\ Head(data) = report[Passed + 1]
             /\ Len(Tail(data)) = Len(data) - 1
             /\ \A i \in 1 .. Len(Tail(data)) : Tail(data)[i] = data[i + 1]
  <2>1. /\ Len(data) >= 1 /\ Head(data) = data[1] /\ Len(Tail(data)) = Len(data) - 1
        /\ \A i \in 1 .. Len(Tail(data)) : Tail(data)[i] = data[i + 1]
        BY <1>1, <1>3
  <2>2. Head(data) = report[Passed + 1]
        BY <2>1 DEF DataInv
  <2> QED  BY <1>2, <2>1, <2>2 DEF Passed
<1> QED  BY <1>1, <1>2, <1>3

(* Where the updater has passed the same entries, what it stored is still there  *)
(* if only raced rows changed their scores.                                    *)
LEMMA StillStored ==
    ASSUME RowTypes, DataInv, NEW i \in 1 .. Passed, Stored(i), report' = report,
           Passed' \in {Passed, Passed + 1}, raced \subseteq raced',
           report[i].id \notin raced' => SameScores(row[report[i].id], row'[report[i].id])
    PROVE  Stored(i)'
<1>1. Passed \in Nat
      BY Entry
<1> DEFINE p == report[i].id
<1>2. SUFFICES ASSUME report[i].scores # Empty, p \notin raced',
                      \A j \in i + 1 .. Passed' : report[j].id # p \/ report[j].scores = Empty
               PROVE  /\ row'[p] # None
                      /\ report[i].scores.rate \in {None, row'[p].rate}
                      /\ report[i].scores.uptime \in {None, row'[p].uptime}
      BY DEF Stored
<1>3. \A j \in i + 1 .. Passed : report[j].id # p \/ report[j].scores = Empty
      BY <1>1, <1>2
<1>4. /\ row[p] # None
      /\ report[i].scores.rate \in {None, row[p].rate}
      /\ report[i].scores.uptime \in {None, row[p].uptime}
      BY <1>2, <1>3 DEF Stored
<1> QED  BY <1>2, <1>4 DEF SameScores

(* No step changes the scores of a row but that of the updater, or raced ones.  *)
LEMMA ScoresKept ==
    ASSUME RepInv, RepNext, ~StoreReputation
    PROVE  /\ raced \subseteq raced'
           /\ \A p \in Providers \ raced' : SameScores(row[p], row'[p])
<1> USE DEF history
<1>1. CASE UNCHANGED <<row, raced>>
      BY <1>1 DEF SameScores
<1>2. ASSUME NEW w \in Writers, NEW p \in Providers, GetOrCreate(w, p), raced' = raced
      PROVE  \A q \in Providers : SameScores(row[q], row'[q])
      BY <1>2 DEF GetOrCreate, SameScores, RepInv, RowTypes
<1>3. CASE ReadReputation
      BY <1>2, <1>3, HeadOfData DEF ReadReputation, RepInv, Writers
<1>4. ASSUME NEW c \in Commands, ReadToBlock(c)
      PROVE  /\ raced \subseteq raced'
             /\ \A p \in Providers \ raced' : SameScores(row[p], row'[p])
  <2>1. c \in Writers /\ Target[c] \in Providers
        BY ReputationAssumption DEF Writers
  <2> QED  BY <1>2, <1>4, <2>1 DEF ReadToBlock
<1>5. ASSUME NEW c \in Commands, SaveBlock(c)
      PROVE  /\ raced \subseteq raced'
             /\ \A p \in Providers \ raced' : SameScores(row[p], row'[p])
  <2> DEFINE t == Target[c]
             u == IF c \in Blocks THEN "forever" ELSE "never"
  <2>1. c \in Writers /\ t \in Providers /\ Holds(c, t)
        BY <1>5, ReputationAssumption DEF Writers, SaveBlock, Holds
  <2>2. /\ held[c] \in Rows /\ row[t] \in Rows
        /\ c \notin overtaken => held[c] = row[t]
        BY <2>1 DEF RepInv, HeldInv
  <2>3. Save(c, t, [held[c] EXCEPT !.until = u])
        BY <1>5 DEF SaveBlock
  <2>4. /\ row' = [row EXCEPT ![t] = [held[c] EXCEPT !.until = u]]
        /\ raced' = IF c \in overtaken THEN raced \cup {t} ELSE raced
        BY <2>3 DEF Save
  <2>5. /\ [held[c] EXCEPT !.until = u] # None
        /\ [held[c] EXCEPT !.until = u].rate = held[c].rate
        /\ [held[c] EXCEPT !.until = u].uptime = held[c].uptime
    <3>1. u \in {"never", "forever"}
          OBVIOUS
    <3> HIDE DEF u
    <3>2. [held[c] EXCEPT !.until = u] \in Rows
          BY <2>2, <3>1, RowFacts
    <3> QED  BY <2>2, <3>2, ReputationAssumption DEF Rows
  <2> HIDE DEF t, u
  <2>6. ASSUME NEW p \in Providers \ raced'
        PROVE  SameScores(row[p], row'[p])
    <3>1. CASE p = t
      <4>1. c \notin overtaken
            BY <2>4, <3>1
      <4> QED  BY <2>1, <2>2, <2>4, <2>5, <3>1, <4>1 DEF SameScores, RepInv, RowTypes
    <3>2. CASE p # t
          BY <2>4, <3>2 DEF SameScores, RepInv, RowTypes
    <3> QED  BY <3>1, <3>2
  <2> QED  BY <2>4, <2>6
<1>6. ASSUME DownloadFails \/ Download \/ Ignore \/ UpdateDone
             \/ \E c \in Commands : ReadToUnblock(c) \/ NothingToUnblock(c)
      PROVE  UNCHANGED <<row, raced>>
      BY <1>6 DEF DownloadFails, Download, Ignore, UpdateDone, ReadToUnblock, NothingToUnblock
<1> QED  BY <1>1, <1>3, <1>4, <1>5, <1>6 DEF RepNext

LEMMA PlusFacts ==
    ASSUME CountInv, NEW ks, count' = Plus(count, ks)
    PROVE  /\ count' \in [Counts -> Nat]
           /\ \A k \in Counts : count[k] \in Nat
                               /\ count'[k] = IF k \in ks THEN count[k] + 1 ELSE count[k]
           /\ {"total", "added", "updated", "ignored"} \subseteq Counts
BY DEF CountInv, Plus, Counts

LEMMA ScoresInit == RepInit => ScoresInv
<1> SUFFICES ASSUME RepInit PROVE ScoresInv
    OBVIOUS
<1>1. data = <<>> /\ report = <<>> /\ Passed = 0 /\ updater = "idle" /\ created = FALSE
      BY DEF RepInit, Passed
<1>2. count = [c \in Counts |-> 0]
      BY DEF RepInit
<1>3. CountInv
  <2>1. {"total", "added", "updated", "ignored"} \subseteq Counts
        BY DEF Counts
  <2>2. \A k \in Counts : count[k] = 0
        BY <1>2
  <2>3. count \in [Counts -> Nat]
        BY <1>2
  <2>4. count["total"] = 0 /\ count["added"] = 0 /\ count["updated"] = 0 /\ count["ignored"] = 0
        BY <2>1, <2>2
  <2>5. created \in BOOLEAN
        BY <1>1
  <2>6. /\ count["total"] = IF updater = "holding" THEN Passed + 1 ELSE Passed
        /\ count["added"] + count["updated"] + count["ignored"] <= Passed
        BY <1>1, <2>4
  <2> QED  BY <2>3, <2>5, <2>6 DEF CountInv
<1>4. DataInv /\ HeldScores
      BY <1>1 DEF DataInv, HeldScores, Holds
<1> QED  BY <1>1, <1>3, <1>4 DEF ScoresInv

(* The commands, and the updater's steps that store nothing. *)
LEMMA CommandScores ==
    ASSUME RepInv, ScoresInv, NEW c \in Commands,
           ReadToBlock(c) \/ ReadToUnblock(c) \/ NothingToUnblock(c) \/ SaveBlock(c)
    PROVE  ScoresInv'
<1>1. UNCHANGED <<updater, data, report, created, count>>
      BY DEF ReadToBlock, ReadToUnblock, NothingToUnblock, SaveBlock, updaterVars
<1>2. held'["updater"] = held["updater"]
  <2>1. c # "updater" /\ "updater" \in Writers
        BY ReputationAssumption DEF Writers
  <2> QED  BY <2>1 DEF ReadToBlock, ReadToUnblock, NothingToUnblock, SaveBlock, GetOrCreate,
               Save, RepInv, RowTypes
<1>3. /\ raced \subseteq raced'
      /\ \A p \in Providers \ raced' : SameScores(row[p], row'[p])
  <2>1. RepNext
        BY DEF RepNext
  <2>2. ~StoreReputation
    <3>1. count' = count /\ data' = data
          BY <1>1
    <3>2. CASE updater = "holding"
          BY <1>1, <3>2 DEF StoreReputation
    <3>3. CASE updater # "holding"
          BY <3>3 DEF StoreReputation
    <3> QED  BY <3>2, <3>3
  <2> QED  BY <2>1, <2>2, ScoresKept
<1>4. Passed' = Passed /\ DataInv' /\ CountInv'
      BY <1>1 DEF ScoresInv, DataInv, CountInv, Passed
<1>5. HeldScores'
  <2> SUFFICES ASSUME NEW p \in Providers \ raced', Holds("updater", p)'
               PROVE  SameScores(row'[p], held'["updater"])
      BY DEF HeldScores
  <2>1. Holds("updater", p) /\ p \notin raced
        BY <1>1, <1>3 DEF Holds
  <2>2. row[p] # None
        BY <2>1, ReputationAssumption DEF RepInv, HeldInv, Writers
  <2>3. SameScores(row[p], row'[p]) /\ SameScores(row[p], held["updater"])
        BY <1>3, <2>1 DEF ScoresInv, HeldScores
  <2> QED  BY <1>2, <2>2, <2>3 DEF SameScores
<1>6. ASSUME NEW i \in 1 .. Passed
      PROVE  Stored(i)'
  <2>1. report[i].id \in Providers
    <3>1. report \in Seq(Reported) /\ Passed \in 0 .. Len(report) /\ Len(report) \in Nat
          BY Entry DEF RepInv, ScoresInv
    <3>2. report[i] \in Reported
          BY <3>1
    <3> QED  BY <3>2 DEF Reported
  <2> QED  BY <1>1, <1>3, <1>4, <2>1, StillStored DEF RepInv, ScoresInv
<1> QED  BY <1>4, <1>5, <1>6 DEF ScoresInv

LEMMA UpdaterScores ==
    ASSUME RepInv, ScoresInv,
           DownloadFails \/ Download \/ Ignore \/ ReadReputation \/ UpdateDone
    PROVE  ScoresInv'
<1>1. RepNext /\ ~StoreReputation
      BY DEF RepNext, StoreReputation, DownloadFails, Download, Ignore, ReadReputation, UpdateDone
<1>2. /\ raced' = raced
      /\ \A p \in Providers \ raced' : SameScores(row[p], row'[p])
      BY <1>1, ScoresKept DEF DownloadFails, Download, Ignore, ReadReputation, UpdateDone, history
<1>3. /\ report \in Seq(Reported) /\ Len(report) \in Nat /\ Len(data) \in Nat
      /\ Passed \in 0 .. Len(report)
      /\ data # <<>> =>
           /\ Passed + 1 \in 1 .. Len(report) /\ Head(data) = report[Passed + 1]
           /\ Len(Tail(data)) = Len(data) - 1
           /\ \A i \in 1 .. Len(Tail(data)) : Tail(data)[i] = data[i + 1]
      BY Entry DEF RepInv, ScoresInv
<1>4. ASSUME NEW i \in 1 .. Passed, report' = report, Passed' \in {Passed, Passed + 1}
      PROVE  Stored(i)'
  <2>1. report[i].id \in Providers
    <3>1. report[i] \in Reported
          BY <1>3
    <3> QED  BY <3>1 DEF Reported
  <2> QED  BY <1>2, <1>4, <2>1, StillStored DEF RepInv, ScoresInv
<1>5. CASE DownloadFails \/ UpdateDone
  <2>1. /\ UNCHANGED <<data, report, created, count>>
        /\ updater # "holding" /\ updater' \in {"done", "failed"}
        /\ updater' = "done" => data = <<>>
        BY <1>5 DEF DownloadFails, UpdateDone
  <2>2. Passed' = Passed /\ DataInv' /\ CountInv'
        BY <2>1 DEF ScoresInv, DataInv, CountInv, Passed
  <2>3. HeldScores'
        BY <2>1 DEF HeldScores, Holds
  <2> QED  BY <1>4, <2>1, <2>2, <2>3 DEF ScoresInv
<1>6. CASE Download
  <2>1. /\ updater = "idle" /\ updater' = "looping" /\ data' \in Reports /\ report' = data'
        /\ UNCHANGED <<created, count>>
        BY <1>6 DEF Download
  <2>2. data' \in Seq(Reported)
        BY <2>1, ReputationAssumption DEF Reported
  <2>3. Passed = 0 /\ Passed' = 0
    <3>1. Len(report) = 0
          BY <2>1 DEF ScoresInv, DataInv
    <3> QED  BY <1>3, <2>1, <2>2, <3>1 DEF Passed
  <2>4. DataInv'
        BY <2>1, <2>2, <2>3 DEF DataInv
  <2>5. CountInv' /\ HeldScores'
        BY <2>1, <2>3 DEF ScoresInv, CountInv, HeldScores, Holds
  <2> QED  BY <2>3, <2>4, <2>5 DEF ScoresInv
<1>7. CASE Ignore
  <2>1. /\ data # <<>> /\ Head(data).scores = Empty /\ data' = Tail(data)
        /\ count' = Plus(count, {"total", "ignored"})
        /\ updater = "looping" /\ UNCHANGED <<updater, report, created>>
        BY <1>7 DEF Ignore
  <2>2. Passed' = Passed + 1
        BY <1>3, <2>1 DEF Passed
  <2>3. DataInv'
    <3>1. \A i \in 1 .. Len(data') : data'[i] = report'[Passed' + i]
          BY <1>3, <2>1, <2>2 DEF ScoresInv, DataInv
    <3> QED  BY <1>3, <2>1, <3>1 DEF ScoresInv, DataInv
  <2>4. CountInv'
    <3>1. CountInv
          BY DEF ScoresInv
    <3>2. /\ count' \in [Counts -> Nat] /\ \A k \in Counts : count[k] \in Nat
          /\ count'["total"] = count["total"] + 1 /\ count'["ignored"] = count["ignored"] + 1
          /\ count'["added"] = count["added"] /\ count'["updated"] = count["updated"]
          /\ {"total", "added", "updated", "ignored"} \subseteq Counts
      <4>1. /\ count' \in [Counts -> Nat]
            /\ \A k \in Counts :
                 /\ count[k] \in Nat
                 /\ count'[k] = IF k \in {"total", "ignored"} THEN count[k] + 1 ELSE count[k]
            /\ {"total", "added", "updated", "ignored"} \subseteq Counts
            BY <2>1, <3>1, PlusFacts
      <4> QED  BY <4>1
    <3> QED  BY <1>3, <2>1, <2>2, <3>1, <3>2 DEF CountInv
  <2>5. HeldScores'
        BY <2>1 DEF HeldScores, Holds
  <2>7. ASSUME NEW i \in 1 .. Passed'
        PROVE  Stored(i)'
    <3>1. i \in 1 .. Passed \/ i = Passed'
          BY <1>3, <2>2
    <3>2. CASE i \in 1 .. Passed
          BY <1>4, <2>1, <2>2, <3>2
    <3>3. CASE i = Passed + 1
          BY <1>3, <2>1, <3>3 DEF Stored
    <3> QED  BY <2>2, <3>1, <3>2, <3>3
  <2> QED  BY <2>3, <2>4, <2>5, <2>7 DEF ScoresInv
<1>8. CASE ReadReputation
  <2>1. /\ data # <<>> /\ updater = "looping" /\ updater' = "holding"
        /\ count' = Plus(count, {"total"}) /\ created' \in BOOLEAN
        /\ UNCHANGED <<data, report>> /\ GetOrCreate("updater", Head(data).id)
        BY <1>8 DEF ReadReputation
  <2>2. Passed' = Passed /\ DataInv'
        BY <2>1 DEF ScoresInv, DataInv, Passed
  <2>3. CountInv'
    <3>1. CountInv
          BY DEF ScoresInv
    <3>2. /\ count' \in [Counts -> Nat] /\ \A k \in Counts : count[k] \in Nat
          /\ count'["total"] = count["total"] + 1 /\ count'["ignored"] = count["ignored"]
          /\ count'["added"] = count["added"] /\ count'["updated"] = count["updated"]
          /\ {"total", "added", "updated", "ignored"} \subseteq Counts
          BY <2>1, <3>1, PlusFacts
    <3> QED  BY <1>3, <2>1, <2>2, <3>1, <3>2 DEF CountInv
  <2>4. HeldScores'
    <3> SUFFICES ASSUME NEW p \in Providers, Holds("updater", p)'
                 PROVE  SameScores(row'[p], held'["updater"])
        BY DEF HeldScores
    <3>1. p = Head(data).id
          BY <2>1 DEF Holds
    <3>2. held'["updater"] = row'[p]
          BY <2>1, <3>1 DEF GetOrCreate, RepInv, RowTypes, Writers
    <3> QED  BY <3>2 DEF SameScores
  <2> QED  BY <1>4, <2>1, <2>2, <2>3, <2>4 DEF ScoresInv
<1> QED  BY <1>5, <1>6, <1>7, <1>8

LEMMA StoreScores ==
    ASSUME RepInv, ScoresInv, StoreReputation
    PROVE  ScoresInv'
<1> DEFINE p   == Head(data).id
           e   == Head(data).scores
           h   == held["updater"]
           new == Rated(h, e)
<1>1. /\ data # <<>> /\ updater = "holding" /\ updater' = "looping" /\ data' = Tail(data)
      /\ UNCHANGED <<report, created>> /\ e # Empty
      BY DEF StoreReputation, RepInv, RowTypes
<1>2. /\ report \in Seq(Reported) /\ Len(report) \in Nat /\ Len(data) \in Nat
      /\ Passed \in 0 .. Len(report)
      /\ Passed + 1 \in 1 .. Len(report) /\ Head(data) = report[Passed + 1]
      /\ Len(Tail(data)) = Len(data) - 1
      /\ \A i \in 1 .. Len(Tail(data)) : Tail(data)[i] = data[i + 1]
      BY <1>1, Entry DEF RepInv, ScoresInv
<1>3. Passed' = Passed + 1
      BY <1>1, <1>2 DEF Passed
<1>4. DataInv'
  <2>1. \A i \in 1 .. Len(data') : data'[i] = report'[Passed' + i]
        BY <1>1, <1>2, <1>3 DEF ScoresInv, DataInv
  <2> QED  BY <1>1, <1>2, <2>1 DEF ScoresInv, DataInv
<1>5. CountInv'
  <2>1. CountInv
        BY DEF ScoresInv
  <2>2. PICK ks \in {{"added"}, {"updated"}, {}} : count' = Plus(count, ks)
        BY DEF StoreReputation
  <2>3. /\ count' \in [Counts -> Nat] /\ \A k \in Counts : count[k] \in Nat
        /\ count'["total"] = count["total"] /\ count'["ignored"] = count["ignored"]
        /\ \/ count'["added"] = count["added"] /\ count'["updated"] = count["updated"]
           \/ count'["added"] = count["added"] + 1 /\ count'["updated"] = count["updated"]
           \/ count'["added"] = count["added"] /\ count'["updated"] = count["updated"] + 1
        /\ {"total", "added", "updated", "ignored"} \subseteq Counts
        BY <2>1, <2>2, PlusFacts
  <2>4. /\ count["total"] = Passed + 1 /\ created' \in BOOLEAN
        /\ count["added"] + count["updated"] + count["ignored"] <= Passed
        BY <1>1, <2>1 DEF CountInv
  <2>5. count'["added"] + count'["updated"] + count'["ignored"] <= Passed'
    <3>1. /\ Passed \in Nat /\ count["ignored"] \in Nat
          /\ count["added"] \in Nat /\ count["updated"] \in Nat
          BY <1>2, <2>3
    <3>2. CASE count'["added"] = count["added"] /\ count'["updated"] = count["updated"]
          BY <1>3, <2>3, <2>4, <3>1, <3>2
    <3>3. CASE count'["added"] = count["added"] + 1 /\ count'["updated"] = count["updated"]
          BY <1>3, <2>3, <2>4, <3>1, <3>3
    <3>4. CASE count'["added"] = count["added"] /\ count'["updated"] = count["updated"] + 1
          BY <1>3, <2>3, <2>4, <3>1, <3>4
    <3> QED  BY <2>3, <3>2, <3>3, <3>4
  <2>6. count'["total"] = Passed' /\ updater' # "holding"
        BY <1>1, <1>3, <2>3, <2>4
  <2> QED  BY <2>3, <2>4, <2>5, <2>6 DEF CountInv
<1>6. HeldScores'
      BY <1>1 DEF HeldScores, Holds
<1>7. p \in Providers /\ e \in Entries /\ Holds("updater", p) /\ "updater" \in Writers
      BY <1>1, HeadOfData DEF RepInv, Holds, Writers
<1>8. h \in Rows /\ row[p] \in Rows /\ ("updater" \notin overtaken => h = row[p])
      BY <1>7 DEF RepInv, HeldInv
<1>9. /\ raced \subseteq raced' /\ \A q \in Providers \ {p} : row'[q] = row[q]
      /\ \/ row'[p] = new
         \/ row'[p] = row[p] /\ new = h /\ raced' = raced
  <2>1. \/ Save("updater", p, new)
        \/ new = h /\ UNCHANGED <<row, raced>>
        BY DEF StoreReputation
  <2> HIDE DEF p, new, h
  <2> QED  BY <1>7, <2>1 DEF Save, RepInv, RowTypes
<1>10. /\ new \in Rows
       /\ e.rate \in {None, new.rate} /\ e.uptime \in {None, new.uptime}
  <2>1. new \in Rows
        BY <1>7, <1>8, RowFacts
  <2>2. /\ new.rate = IF e.rate # None THEN e.rate ELSE h.rate
        /\ new.uptime = IF e.uptime # None THEN e.uptime ELSE h.uptime
        BY <1>8 DEF Rated, Rows
  <2> QED  BY <2>1, <2>2
<1>11. p \notin raced' => /\ row'[p] # None
                         /\ e.rate \in {None, row'[p].rate}
                         /\ e.uptime \in {None, row'[p].uptime}
  <2> HIDE DEF p, e, h, new
  <2> SUFFICES ASSUME p \notin raced'
               PROVE  /\ row'[p] # None
                      /\ e.rate \in {None, row'[p].rate}
                      /\ e.uptime \in {None, row'[p].uptime}
      OBVIOUS
  <2>1. CASE row'[p] = new
        BY <1>10, <2>1, ReputationAssumption
  <2>2. CASE row'[p] = row[p] /\ new = h /\ raced' = raced
    <3>1. row[p] # None
          BY <1>8, ReputationAssumption
    <3>2. SameScores(row[p], held["updater"])
          BY <1>7, <2>2 DEF ScoresInv, HeldScores
    <3> QED  BY <1>10, <2>2, <3>1, <3>2 DEF SameScores, h
  <2> QED  BY <1>9, <2>1, <2>2
<1>12. ASSUME NEW i \in 1 .. Passed'
       PROVE  Stored(i)'
  <2>1. report[i].id \in Providers /\ (i \in 1 .. Passed \/ i = Passed + 1)
    <3>1. i \in 1 .. Len(report) /\ (i \in 1 .. Passed \/ i = Passed + 1)
          BY <1>2, <1>3
    <3>2. report[i] \in Reported
          BY <1>2, <3>1
    <3> QED  BY <3>1, <3>2 DEF Reported
  <2>2. CASE i \in 1 .. Passed /\ report[i].id # p
    <3>1. SameScores(row[report[i].id], row'[report[i].id])
          BY <1>9, <2>1, <2>2 DEF SameScores
    <3> QED  BY <1>1, <1>3, <1>9, <2>2, <3>1, StillStored DEF RepInv, ScoresInv
  <2>3. CASE i \in 1 .. Passed /\ report[i].id = p
    <3>1. Passed + 1 \in i + 1 .. Passed'
          BY <1>2, <1>3, <2>3
    <3>2. report'[Passed + 1].id = p /\ report'[Passed + 1].scores # Empty
          BY <1>1, <1>2
    <3> QED  BY <1>1, <2>3, <3>1, <3>2 DEF Stored
  <2>4. CASE i = Passed + 1
    <3>1. report'[i].id = p /\ report'[i].scores = e
          BY <1>1, <1>2, <2>4
    <3> QED  BY <1>11, <3>1 DEF Stored
  <2> QED  BY <2>1, <2>2, <2>3, <2>4
<1> QED  BY <1>4, <1>5, <1>6, <1>12 DEF ScoresInv

LEMMA ScoresStep == RepInv /\ ScoresInv /\ [RepNext]_repVars => ScoresInv'
<1> SUFFICES ASSUME RepInv, ScoresInv, [RepNext]_repVars PROVE ScoresInv'
    OBVIOUS
<1>1. CASE UNCHANGED repVars
  <2>1. UNCHANGED <<row, updater, data, report, created, count, held, raced, command>>
        BY <1>1 DEF repVars, updaterVars, history
  <2>2. Passed' = Passed /\ DataInv' /\ CountInv' /\ HeldScores'
        BY <2>1 DEF ScoresInv, DataInv, CountInv, HeldScores, Holds, Passed
  <2>3. \A i : Stored(i)' <=> Stored(i)
        BY <2>1, <2>2 DEF Stored
  <2> QED  BY <2>2, <2>3 DEF ScoresInv
<1>2. CASE RepNext
      BY <1>2, CommandScores, UpdaterScores, StoreScores DEF RepNext
<1> QED  BY <1>1, <1>2

-----------------------------------------------------------------------------
(* What follows for the database alone. *)

LEMMA RepInvariants == RepSpec => [](RepInv /\ ScoresInv)
BY RepInvInit, RepInvStep, ScoresInit, ScoresStep, PTL DEF RepSpec

(* Every state of the database and its commands has the types RepTypeOK states:  *)
(* no counter runs past the download, and what is ahead is its rest.            *)
THEOREM RowsTyped == RepSpec => []RepTypeOK
<1>1. RepInv /\ ScoresInv => RepTypeOK
  <2> SUFFICES ASSUME RepInv, ScoresInv PROVE RepTypeOK
      OBVIOUS
  <2>1. /\ report \in Seq(Reported) /\ Len(report) \in Nat /\ Len(data) \in Nat
        /\ Passed \in 0 .. Len(report) /\ data \in Seq(Reported)
        /\ data # <<>> => Passed + 1 \in 1 .. Len(report)
        BY Entry DEF RepInv, RowTypes, ScoresInv
  <2>2. Passed + 1 \in 1 .. Len(report) + 1 /\ data = SubSeq(report, Passed + 1, Len(report))
    <3>1. Passed + 1 \in 1 .. Len(report) + 1
          BY <2>1
    <3> DEFINE r == SubSeq(report, Passed + 1, Len(report))
    <3>2. /\ r \in Seq(Reported) /\ Len(r) = Len(report) - Passed
          /\ \A i \in 1 .. Len(r) : r[i] = report[Passed + i]
          BY <2>1
    <3>3. Len(r) = Len(data)
          BY <2>1, <3>2 DEF Passed
    <3>4. \A i \in 1 .. Len(r) : r[i] = data[i]
          BY <3>2, <3>3 DEF ScoresInv, DataInv
    <3> HIDE DEF r
    <3>5. r = data
          BY <2>1, <3>2, <3>3, <3>4
    <3> QED  BY <3>1, <3>5 DEF r
  <2>3. count \in [Counts -> 0 .. Len(report)]
    <3>1. /\ count \in [Counts -> Nat]
          /\ count["total"] = IF updater = "holding" THEN Passed + 1 ELSE Passed
          /\ count["added"] + count["updated"] + count["ignored"] <= Passed
          BY DEF ScoresInv, CountInv
    <3>2. updater = "holding" => data # <<>>
          BY DEF RepInv, RowTypes
    <3>3. ASSUME NEW k \in Counts
          PROVE  count[k] \in 0 .. Len(report)
      <4>1. \A l \in {"total", "added", "updated", "ignored"} : count[l] \in Nat
            BY <3>1 DEF Counts
      <4>2. count["total"] <= Len(report)
            BY <2>1, <3>1, <3>2
      <4>3. /\ count["added"] <= Len(report) /\ count["updated"] <= Len(report)
            /\ count["ignored"] <= Len(report)
            BY <2>1, <3>1, <4>1
      <4> QED  BY <2>1, <4>1, <4>2, <4>3 DEF Counts
    <3> QED  BY <3>1, <3>3
  <2> QED  BY <2>2, <2>3 DEF RepInv, RowTypes, ScoresInv, DataInv, CountInv, RepTypeOK
<1> QED  BY <1>1, RepInvariants, PTL

(* Whatever downloads, blocks and unblocks overlap: a row no writer saved over *)
(* another one's is on the blacklist if and only if it was blocked last.      *)
THEOREM BlockStays == RepSpec => []BlockSticksAlone
<1>1. RepInv => BlockSticksAlone
      BY DEF RepInv
<1> QED  BY <1>1, RepInvariants, PTL

(* An update that is through has stored the last scores of every provider whose  *)
(* row was not raced for, and has counted every entry.                          *)
THEOREM ScoresStored == RepSpec => []UpdateStoresScores
<1>1. RepInv /\ ScoresInv => UpdateStoresScores
  <2> SUFFICES ASSUME RepInv, ScoresInv, updater = "done" PROVE UpdateStoresScores
      BY DEF UpdateStoresScores
  <2>1. data = <<>> /\ Len(report) \in Nat
        BY Entry DEF RepInv, ScoresInv, DataInv
  <2>2. Passed = Len(report)
        BY <2>1 DEF Passed
  <2>3. /\ count["total"] = Len(report)
        /\ count["added"] + count["updated"] + count["ignored"] <= Len(report)
        BY <2>2 DEF ScoresInv, CountInv
  <2>4. \A i \in 1 .. Len(report) : Stored(i)
        BY <2>2 DEF ScoresInv
  <2> QED  BY <2>2, <2>3, <2>4 DEF UpdateStoresScores, Stored
<1> QED  BY <1>1, RepInvariants, PTL

(* The score of a blocked provider is zero, that of nobody is less.           *)
LEMMA RankLast == RepInv => BlockedRankLast
<1> SUFFICES ASSUME RepInv, NEW p \in Providers, NEW q \in Providers, Blacklisted(p)
             PROVE  Score(p) <= Score(q)
    BY DEF BlockedRankLast
<1>1. Score(p) = 0
      BY DEF Score, Listed, Blacklisted
<1>2. Score(q) \in Nat
  <2>1. CASE ~Listed(q)
        BY <2>1 DEF Score
  <2>2. CASE Listed(q)
    <3>1. row[q] \in Rows
          BY <2>2 DEF Listed, RepInv, RowTypes
    <3>2. row[q].rate \in Scores \cup {None} /\ row[q].uptime \in Scores \cup {None}
          BY <3>1 DEF Rows
    <3> QED  BY <2>2, <3>2, ReputationAssumption DEF Score, Scores
  <2> QED  BY <2>1, <2>2
<1> QED  BY <1>1, <1>2

(* So the scorer ranks a blocked provider last, whatever the download said.   *)
THEOREM BlockedLast == RepSpec => []BlockedRankLast
<1> QED  BY RankLast, RepInvariants, PTL

-----------------------------------------------------------------------------
(* The pipeline and its command. *)

Places == {"market", "checking", "passed", "buffered", "negotiating", "failed", "lost",
           "draft", "taken", "rejected", "dropped"}

(* The part of the type invariant the properties below depend on *)
StatsTypes ==
    /\ where \in [Proposals -> Places]
    /\ tally \in [Tags -> Nat] /\ fails \in Nat
    /\ blockedBefore \subseteq Proposals
    /\ phase \in {"idle", "exited"} \cup Starting \cup Running \cup Stopping
    /\ error \in BOOLEAN
    /\ interrupted \in {"no", "outside", "running", "gathering", "rejecting"}

(* Whose proposals are in blockedBefore is still blocked *)
BlockedInv ==
    \A x \in blockedBefore :
        /\ wanted[Issuer[x]] = "blocked" /\ Issuer[x] \notin raced
        /\ where[x] \in {"checking", "dropped"}

(* Drafts are taken while they are gathered, and kept until they are rejected *)
DraftInv ==
    phase \notin {"gathering", "rejecting"} /\ interrupted # "rejecting"
        => \A x \in Proposals : where[x] # "taken"

(* What the command has started by each of its awaits; what run started stays *)
(* up where run was cut off                                                  *)
Lent == {"payments", "stack"}

UpInv ==
    ~error =>
        /\ phase \in {"idle", "yagna"} => up = {}
        /\ phase \in {"funds", "db"} => up = {"yagna"}
        /\ phase = "golem" => up = {"yagna", "db"}
        /\ phase = "payments" => up = {"yagna", "db", "golem"}
        /\ phase \in {"payloads", "paymentstop"} => up = {"yagna", "db", "golem", "payments"}
        /\ phase \in {"stackstart", "gathering", "rejecting", "stackstop"} =>
             up = {"yagna", "db", "golem", "payments", "stack"}
        /\ phase = "golemstop" => up \ Lent = {"yagna", "db", "golem"}
        /\ phase = "dbstop" => up \ Lent = {"yagna", "db"}
        /\ phase = "yagnastop" => up \ Lent = {"yagna"}
        /\ phase = "exited" /\ interrupted # "outside" => up \subseteq Lent
        /\ phase \in Stopping \cup {"exited"} /\ interrupted \in {"no", "gathering"}
             => up \cap Lent = {}

(* An error is on its way out of run, or has ended the command *)
ErrorInv == error => phase \in {"rejecting", "stackstop", "paymentstop", "exited"}

StatsInv ==
    StatsTypes /\ BlockedInv /\ DraftInv /\ UpInv /\ ErrorInv /\ NegotiationsAccounted

-----------------------------------------------------------------------------
(* The steps of the command itself leave the reputation database alone. *)

LEMMA StatsLeaveRows ==
    ASSUME [Next]_vars
    PROVE  [RepNext]_repVars
<1>1. ASSUME NEW x \in Proposals, Pipeline(x) PROVE UNCHANGED repVars
      BY <1>1 DEF Pipeline, Receive, NotBlacklisted, DropBlacklisted, CheckCosts,
                  StartNegotiation, Negotiated, NegotiationFails, DemandFails, TakeDraft
<1>2. CASE Begin \/ Step \/ StepFails \/ Interrupt
      BY <1>2 DEF Begin, Step, Go, YagnaStarted, FundsPrepared, DbStarted, GolemStarted,
                  PaymentsStarted, StackCreated, StackStarted, GatheringEnds, RejectDrafts,
                  StackStopped, PaymentsStopped, GolemStopped, DbStopped, YagnaStopped,
                  StepFails, Interrupt
<1>3. CASE Reputed
      BY <1>3 DEF Reputed
<1>4. CASE UNCHANGED vars
      BY <1>4 DEF vars
<1> QED  BY <1>1, <1>2, <1>3, <1>4 DEF Next

LEMMA RepInvKept ==
    ASSUME RepInv, [Next]_vars
    PROVE  RepInv'
BY StatsLeaveRows, RepInvStep

-----------------------------------------------------------------------------
(* The pipeline. *)

LEMMA PipelineTypes ==
    ASSUME StatsTypes, NEW x \in Proposals, Pipeline(x)
    PROVE  /\ StatsTypes'
           /\ \A y \in Proposals \ {x} : where'[y] = where[y]
           /\ UNCHANGED commandVars
<1>1. /\ where' \in [Proposals -> Places]
      /\ \A y \in Proposals \ {x} : where'[y] = where[y]
      BY DEF Pipeline, Receive, NotBlacklisted, DropBlacklisted, CheckCosts, StartNegotiation,
             Negotiated, NegotiationFails, DemandFails, TakeDraft, Move, StatsTypes, Places
<1>2. tally' = tally \/ \E t \in Tags : Tally(t)
      BY DEF Pipeline, Receive, NotBlacklisted, DropBlacklisted, CheckCosts, StartNegotiation,
             Negotiated, NegotiationFails, DemandFails, TakeDraft, Tags
<1>3. tally' \in [Tags -> Nat]
      BY <1>2 DEF StatsTypes, Tally
<1>4. UNCHANGED commandVars
      BY DEF Pipeline, Receive, NotBlacklisted, DropBlacklisted, CheckCosts, StartNegotiation,
             Negotiated, NegotiationFails, DemandFails, TakeDraft, commandVars
<1>5. fails' \in {fails, fails + 1}
      BY DEF Pipeline, Receive, NotBlacklisted, DropBlacklisted, CheckCosts, StartNegotiation,
             Negotiated, NegotiationFails, DemandFails, TakeDraft
<1>6. blockedBefore' \subseteq blockedBefore \cup {x}
      BY DEF Pipeline, Receive, NotBlacklisted, DropBlacklisted, CheckCosts, StartNegotiation,
             Negotiated, NegotiationFails, DemandFails, TakeDraft
<1>7. fails' \in Nat /\ blockedBefore' \subseteq Proposals
      BY <1>5, <1>6 DEF StatsTypes
<1> QED  BY <1>1, <1>3, <1>4, <1>7 DEF StatsTypes, commandVars

(* A proposal that enters or leaves the negotiation is counted. *)
LEMMA PipelineCounts ==
    ASSUME StatsTypes, NegotiationsAccounted, NEW x \in Proposals, Pipeline(x)
    PROVE  NegotiationsAccounted'
<1> DEFINE begun == tally["Negotiation initialized"]
           ended == tally["Negotiated successfully"]
           n     == Cardinality(Uncounted)
<1> USE DEF Move, Tally
<1>1. IsFiniteSet(Uncounted) /\ n \in Nat
      BY StatsAssumption, FS_Subset, FS_CardinalityType DEF Uncounted
<1>2. begun = ended + fails + n
      BY DEF NegotiationsAccounted, Uncounted
<1>3. begun \in Nat /\ ended \in Nat /\ fails \in Nat
      BY DEF StatsTypes, Tags
<1>4. SUFFICES begun' = ended' + fails' + n'
      BY DEF NegotiationsAccounted, Uncounted
<1>5. CASE StartNegotiation(x)
  <2>1. Uncounted' = Uncounted \cup {x} /\ x \notin Uncounted
        BY <1>5 DEF StartNegotiation, Uncounted, StatsTypes
  <2>2. n' = n + 1
        BY <1>1, <2>1, FS_AddElement
  <2>3. begun' = begun + 1 /\ ended' = ended /\ fails' = fails
        BY <1>5 DEF StartNegotiation, StatsTypes, Tags
  <2> HIDE DEF begun, ended, n
  <2> QED  BY <1>1, <1>2, <1>3, <2>2, <2>3
<1>6. CASE Negotiated(x) \/ NegotiationFails(x)
  <2>1. Uncounted' = Uncounted \ {x} /\ x \in Uncounted
        BY <1>6 DEF Negotiated, NegotiationFails, Uncounted, StatsTypes
  <2>2. n' = n - 1
        BY <1>1, <2>1, FS_RemoveElement
  <2>3. /\ begun' = begun
        /\ \/ ended' = ended + 1 /\ fails' = fails
           \/ ended' = ended /\ fails' = fails + 1
        BY <1>6 DEF Negotiated, NegotiationFails, StatsTypes, Tags
  <2> HIDE DEF begun, ended, n
  <2> QED  BY <1>1, <1>2, <1>3, <2>2, <2>3
<1>7. CASE ~StartNegotiation(x) /\ ~Negotiated(x) /\ ~NegotiationFails(x)
  <2>1. Uncounted' = Uncounted
        BY <1>7 DEF Pipeline, Receive, NotBlacklisted, DropBlacklisted, CheckCosts,
                    DemandFails, TakeDraft, Uncounted, StatsTypes
  <2>2. begun' = begun /\ ended' = ended /\ fails' = fails
        BY <1>7 DEF Pipeline, Receive, NotBlacklisted, DropBlacklisted, CheckCosts,
                    DemandFails, TakeDraft, StatsTypes, Tags
  <2> QED  BY <1>2, <2>1, <2>2
<1> QED  BY <1>5, <1>6, <1>7

LEMMA PipelineStep ==
    ASSUME RepInv, StatsInv, NEW x \in Proposals, Pipeline(x)
    PROVE  StatsInv'
<1>1. /\ StatsTypes' /\ UNCHANGED <<phase, up, error, interrupted>>
      /\ \A y \in Proposals \ {x} : where'[y] = where[y]
      BY PipelineTypes DEF StatsInv, commandVars
<1>2. UNCHANGED <<row, wanted, raced>>
      BY DEF Pipeline, Receive, NotBlacklisted, DropBlacklisted, CheckCosts, StartNegotiation,
             Negotiated, NegotiationFails, DemandFails, TakeDraft, repVars, history
<1>3. NegotiationsAccounted'
      BY PipelineCounts DEF StatsInv
<1>4. BlockedInv'
  <2>1. blockedBefore' = blockedBefore \/ Receive(x)
        BY DEF Pipeline, NotBlacklisted, DropBlacklisted, CheckCosts, StartNegotiation,
               Negotiated, NegotiationFails, DemandFails, TakeDraft
  <2>2. \A y \in blockedBefore' \ {x} :
            /\ wanted'[Issuer[y]] = "blocked" /\ Issuer[y] \notin raced'
            /\ where'[y] \in {"checking", "dropped"}
    <3>1. blockedBefore' \ {x} \subseteq blockedBefore /\ blockedBefore' \subseteq Proposals
          BY <1>1, <2>1 DEF Receive, StatsTypes
    <3> QED  BY <1>1, <1>2, <3>1 DEF StatsInv, BlockedInv
  <2>3. ASSUME x \in blockedBefore'
        PROVE  /\ wanted'[Issuer[x]] = "blocked" /\ Issuer[x] \notin raced'
               /\ where'[x] \in {"checking", "dropped"}
    <3>1. CASE x \in blockedBefore
      <4>1. /\ wanted[Issuer[x]] = "blocked" /\ Issuer[x] \notin raced
            /\ where[x] \in {"checking", "dropped"} /\ Issuer[x] \in Providers
            BY <3>1, StatsAssumption DEF StatsInv, BlockedInv
      <4>2. Blacklisted(Issuer[x])
            BY <4>1 DEF RepInv, BlockSticksAlone
      <4>3. where'[x] \in {"checking", "dropped"}
            BY <4>1, <4>2 DEF Pipeline, Receive, NotBlacklisted, DropBlacklisted, CheckCosts,
                      StartNegotiation, Negotiated, NegotiationFails, DemandFails,
                      TakeDraft, Move, StatsInv, StatsTypes
      <4> QED  BY <1>2, <4>1, <4>3
    <3>2. CASE x \notin blockedBefore
      <4>1. /\ Receive(x)
            /\ wanted[Issuer[x]] = "blocked" /\ Issuer[x] \notin raced
            BY <2>1, <2>3, <3>2 DEF Receive
      <4>2. where'[x] = "checking"
            BY <4>1 DEF Receive, Move, StatsInv, StatsTypes
      <4> QED  BY <1>2, <4>1, <4>2
    <3> QED  BY <3>1, <3>2
  <2> QED  BY <2>2, <2>3 DEF BlockedInv
<1>5. DraftInv'
  <2>1. where'[x] = "taken" => phase = "gathering"
        BY DEF Pipeline, Receive, NotBlacklisted, DropBlacklisted, CheckCosts,
               StartNegotiation, Negotiated, NegotiationFails, DemandFails, TakeDraft,
               Move, StatsInv, StatsTypes
  <2> QED  BY <1>1, <2>1 DEF StatsInv, DraftInv
<1>6. UpInv' /\ ErrorInv'
      BY <1>1 DEF StatsInv, UpInv, ErrorInv
<1> QED  BY <1>1, <1>3, <1>4, <1>5, <1>6 DEF StatsInv

-----------------------------------------------------------------------------
(* The command. *)

(* A step that moves no proposal needs only its phase and services checked. *)
LEMMA MoveNobody ==
    ASSUME StatsInv, UNCHANGED <<repVars, pipelineVars, blockedBefore>>
    PROVE  BlockedInv' /\ NegotiationsAccounted'
BY DEF StatsInv, BlockedInv, NegotiationsAccounted, Uncounted, repVars, history, pipelineVars

LEMMA CommandTypes ==
    ASSUME StatsTypes, Begin \/ Step \/ StepFails \/ Interrupt
    PROVE  StatsTypes'
<1> USE DEF Starting, Running, Stopping
<1>1. CASE Begin \/ Step
  <2>1. /\ phase' \in {"idle", "exited"} \cup Starting \cup Running \cup Stopping
        /\ error' \in BOOLEAN /\ interrupted' = interrupted
        BY <1>1 DEF Begin, Step, Go, YagnaStarted, FundsPrepared, DbStarted, GolemStarted,
                    PaymentsStarted, StackCreated, StackStarted, GatheringEnds, RejectDrafts,
                    StackStopped, PaymentsStopped, GolemStopped, DbStopped, YagnaStopped,
                    StatsTypes
  <2>2. UNCHANGED <<tally, fails, blockedBefore>>
        BY <1>1 DEF Begin, Step, Go, YagnaStarted, FundsPrepared, DbStarted, GolemStarted,
                    PaymentsStarted, StackCreated, StackStarted, GatheringEnds, RejectDrafts,
                    StackStopped, PaymentsStopped, GolemStopped, DbStopped, YagnaStopped,
                    pipelineVars
  <2>3. where' \in [Proposals -> Places]
        BY <1>1 DEF Begin, Step, Go, YagnaStarted, FundsPrepared, DbStarted, GolemStarted,
                    PaymentsStarted, StackCreated, StackStarted, GatheringEnds, RejectDrafts,
                    StackStopped, PaymentsStopped, GolemStopped, DbStopped, YagnaStopped,
                    pipelineVars, StatsTypes, Places
  <2> QED  BY <2>1, <2>2, <2>3 DEF StatsTypes
<1>2. CASE StepFails
      BY <1>2 DEF StepFails, StatsTypes, pipelineVars
<1>3. CASE Interrupt
      BY <1>3 DEF Interrupt, When, StatsTypes, pipelineVars
<1> QED  BY <1>1, <1>2, <1>3

LEMMA ServicesStep ==
    ASSUME StatsTypes, UpInv, ErrorInv, Begin \/ Step \/ StepFails \/ Interrupt
    PROVE  UpInv' /\ ErrorInv'
<1> USE DEF UpInv, ErrorInv, Lent, Starting, Running, Stopping
<1>1. CASE Begin \/ YagnaStarted \/ FundsPrepared \/ DbStarted \/ GolemStarted
      BY <1>1 DEF Begin, Go, YagnaStarted, FundsPrepared, DbStarted, GolemStarted
<1>2. CASE PaymentsStarted \/ StackCreated \/ StackStarted
      BY <1>2 DEF Go, PaymentsStarted, StackCreated, StackStarted
<1>3. CASE GatheringEnds \/ RejectDrafts
      BY <1>3 DEF Go, GatheringEnds, RejectDrafts
<1>4. CASE StackStopped
      BY <1>4 DEF Go, StackStopped
<1>5. CASE PaymentsStopped
      BY <1>5 DEF Go, PaymentsStopped
<1>6. CASE GolemStopped
      BY <1>6 DEF Go, GolemStopped
<1>7. CASE DbStopped
      BY <1>7 DEF Go, DbStopped
<1>8. CASE YagnaStopped
      BY <1>8 DEF Go, YagnaStopped
<1>9. CASE StepFails
      BY <1>9 DEF StepFails
<1>10. CASE Interrupt
      BY <1>10 DEF Interrupt, When, StatsTypes
<1> QED  BY <1>1, <1>2, <1>3, <1>4, <1>5, <1>6, <1>7, <1>8, <1>9, <1>10 DEF Step

LEMMA CommandStatsStep ==
    ASSUME StatsInv, Begin \/ Step \/ StepFails \/ Interrupt
    PROVE  StatsInv'
<1>1. StatsTypes' /\ UpInv' /\ ErrorInv'
      BY CommandTypes, ServicesStep DEF StatsInv
<1>2. CASE RejectDrafts
  <2>1. UNCHANGED <<wanted, raced, blockedBefore, tally, fails, interrupted>>
        BY <1>2 DEF RejectDrafts, repVars, history
  <2>2. \A x \in Proposals :
            /\ where'[x] # "taken"
            /\ where'[x] \in {"negotiating", "lost"} <=> where[x] \in {"negotiating", "lost"}
            /\ where[x] \in {"checking", "dropped"} => where'[x] = where[x]
        BY <1>2 DEF RejectDrafts
  <2>3. BlockedInv'
        BY <2>1, <2>2 DEF StatsInv, BlockedInv, StatsTypes
  <2>4. Uncounted' = Uncounted
        BY <2>2 DEF Uncounted
  <2>5. NegotiationsAccounted'
        BY <2>1, <2>4 DEF StatsInv, NegotiationsAccounted, Uncounted
  <2>6. DraftInv'
        BY <2>2 DEF DraftInv
  <2> QED  BY <1>1, <2>3, <2>5, <2>6 DEF StatsInv
<1>3. CASE ~RejectDrafts
  <2>1. UNCHANGED <<repVars, pipelineVars, blockedBefore>>
        BY <1>3 DEF Begin, Step, Go, YagnaStarted, FundsPrepared, DbStarted, GolemStarted,
                    PaymentsStarted, StackCreated, StackStarted, GatheringEnds, StackStopped,
                    PaymentsStopped, GolemStopped, DbStopped, YagnaStopped, StepFails, Interrupt
  <2>2. \/ phase \notin {"gathering", "rejecting"} /\ interrupted' = interrupted
        \/ phase' \in {"gathering", "rejecting"}
        \/ interrupted' = "rejecting"
        \/ phase \notin {"gathering", "rejecting"} /\ interrupted = "no"
        BY <1>3 DEF Begin, Step, Go, YagnaStarted, FundsPrepared, DbStarted, GolemStarted,
                    PaymentsStarted, StackCreated, StackStarted, GatheringEnds, StackStopped,
                    PaymentsStopped, GolemStopped, DbStopped, YagnaStopped, StepFails,
                    Interrupt, When, Starting, Stopping, Running
  <2>3. DraftInv'
        BY <2>1, <2>2 DEF StatsInv, DraftInv, pipelineVars
  <2> QED  BY <1>1, <2>1, <2>3, MoveNobody DEF StatsInv
<1> QED  BY <1>2, <1>3

(* The commands on the database change nothing but whose block still holds. *)
LEMMA ReputedStep ==
    ASSUME StatsInv, Reputed
    PROVE  StatsInv'
<1>1. /\ UNCHANGED <<where, tally, fails, phase, up, error, interrupted>>
      /\ blockedBefore' =
           {x \in blockedBefore : wanted'[Issuer[x]] = "blocked" /\ Issuer[x] \notin raced'}
      BY DEF Reputed, pipelineVars, commandVars
<1>2. StatsTypes' /\ BlockedInv'
      BY <1>1 DEF StatsInv, StatsTypes, BlockedInv
<1>3. DraftInv' /\ ErrorInv'
      BY <1>1 DEF StatsInv, DraftInv, ErrorInv
<1>4. UpInv'
  <2>1. phase' = phase /\ up' = up /\ error' = error /\ interrupted' = interrupted /\ UpInv
        BY <1>1 DEF StatsInv
  <2> QED  BY <2>1 DEF UpInv
<1>5. NegotiationsAccounted'
  <2>1. UNCHANGED <<where, tally, fails>> /\ NegotiationsAccounted
        BY <1>1 DEF StatsInv
  <2> QED  BY <2>1 DEF NegotiationsAccounted, Uncounted
<1> QED  BY <1>2, <1>3, <1>4, <1>5 DEF StatsInv

-----------------------------------------------------------------------------
(* Each counter counts proposals that have left the places before it. *)

Ahead(t) ==
    CASE t = "Initial"                 -> {"market"}
      [] t = "Not blacklisted"         -> {"market", "checking"}
      [] t = "Passed"                  -> {"market", "checking", "passed"}
      [] t = "Negotiation initialized" -> {"market", "checking", "passed", "buffered"}
      [] t = "Negotiated successfully" -> {"market", "checking", "passed", "buffered",
                                           "negotiating"}

Past(t) == {x \in Proposals : where[x] \notin Ahead(t)}

TallyInv ==
    /\ up \subseteq {"yagna", "db", "golem", "payments", "stack"}
    /\ \A t \in Tags : tally[t] <= Cardinality(Past(t))
    /\ fails <= Cardinality(Past("Negotiated successfully"))

LEMMA PastFinite ==
    ASSUME NEW t
    PROVE  /\ IsFiniteSet(Past(t)) /\ Cardinality(Past(t)) \in Nat
           /\ Cardinality(Past(t)) <= Cardinality(Proposals) /\ Cardinality(Proposals) \in Nat
BY StatsAssumption, FS_Subset, FS_CardinalityType DEF Past

(* A proposal passes a counter once, and only then is it counted. *)
LEMMA Passing ==
    ASSUME StatsTypes, NEW x \in Proposals, Pipeline(x), NEW t \in Tags
    PROVE  LET passes == where[x] \in Ahead(t) /\ where'[x] \notin Ahead(t) IN
           /\ where[x] \notin Ahead(t) => where'[x] \notin Ahead(t)
           /\ tally'[t] = tally[t] \/ (passes /\ tally'[t] = tally[t] + 1)
           /\ t = "Negotiated successfully" =>
                fails' = fails \/ (passes /\ fails' = fails + 1)
<1> USE DEF Move, Tally, Ahead, Tags, StatsTypes, Places
<1>1. CASE Receive(x)
      BY <1>1 DEF Receive
<1>2. CASE NotBlacklisted(x)
      BY <1>2 DEF NotBlacklisted
<1>3. CASE DropBlacklisted(x)
      BY <1>3 DEF DropBlacklisted
<1>4. CASE CheckCosts(x)
      BY <1>4 DEF CheckCosts
<1>5. CASE StartNegotiation(x)
      BY <1>5 DEF StartNegotiation
<1>6. CASE Negotiated(x)
      BY <1>6 DEF Negotiated
<1>7. CASE NegotiationFails(x)
      BY <1>7 DEF NegotiationFails
<1>8. CASE DemandFails(x)
      BY <1>8 DEF DemandFails
<1>9. CASE TakeDraft(x)
      BY <1>9 DEF TakeDraft
<1> QED  BY <1>1, <1>2, <1>3, <1>4, <1>5, <1>6, <1>7, <1>8, <1>9 DEF Pipeline

LEMMA TallyStep ==
    ASSUME StatsInv, TallyInv, [Next]_vars
    PROVE  TallyInv'
<1>1. ASSUME NEW x \in Proposals, Pipeline(x)
      PROVE  TallyInv'
  <2>1. /\ up' = up /\ where' \in [Proposals -> Places]
        /\ \A y \in Proposals \ {x} : where'[y] = where[y]
        BY <1>1, PipelineTypes DEF StatsInv, StatsTypes, commandVars
  <2>2. ASSUME NEW t \in Tags
        PROVE  /\ tally'[t] <= Cardinality(Past(t))'
               /\ t = "Negotiated successfully" => fails' <= Cardinality(Past(t))'
    <3> DEFINE passes == where[x] \in Ahead(t) /\ where'[x] \notin Ahead(t)
               n      == Cardinality(Past(t))
    <3>1. /\ where[x] \notin Ahead(t) => where'[x] \notin Ahead(t)
          /\ tally'[t] = tally[t] \/ (passes /\ tally'[t] = tally[t] + 1)
          /\ t = "Negotiated successfully" =>
               fails' = fails \/ (passes /\ fails' = fails + 1)
          BY <1>1, Passing DEF StatsInv
    <3>2. IsFiniteSet(Past(t)) /\ n \in Nat
          BY PastFinite
    <3>3. /\ tally[t] \in Nat /\ fails \in Nat /\ tally[t] <= n
          /\ t = "Negotiated successfully" => fails <= n
          BY DEF StatsInv, StatsTypes, TallyInv
    <3>4. CASE passes
      <4>1. Past(t)' = Past(t) \cup {x} /\ x \notin Past(t)
            BY <2>1, <3>4 DEF Past
      <4>2. n' = n + 1
            BY <3>2, <4>1, FS_AddElement
      <4>3. /\ tally'[t] = tally[t] \/ tally'[t] = tally[t] + 1
            /\ t = "Negotiated successfully" => fails' = fails \/ fails' = fails + 1
            BY <3>1
      <4>4. \A k \in Nat : k <= n => k <= n' /\ k + 1 <= n'
        <5> HIDE DEF n
        <5> QED  BY <3>2, <4>2
      <4>5. tally'[t] <= n'
            BY <3>3, <4>3, <4>4
      <4>6. t = "Negotiated successfully" => fails' <= n'
            BY <3>3, <4>3, <4>4
      <4> QED  BY <4>5, <4>6
    <3>5. CASE ~passes
      <4>1. Past(t)' = Past(t)
            BY <2>1, <3>1, <3>5 DEF Past
      <4> QED  BY <3>1, <3>2, <3>3, <3>5, <4>1
    <3> QED  BY <3>4, <3>5
  <2>3. "Negotiated successfully" \in Tags
        BY DEF Tags
  <2> QED  BY <2>1, <2>2, <2>3 DEF TallyInv
<1>2. CASE Begin \/ Step \/ StepFails \/ Interrupt
  <2>1. /\ up' \subseteq {"yagna", "db", "golem", "payments", "stack"}
        /\ UNCHANGED <<tally, fails>>
        BY <1>2 DEF Begin, Step, Go, YagnaStarted, FundsPrepared, DbStarted, GolemStarted,
                    PaymentsStarted, StackCreated, StackStarted, GatheringEnds, RejectDrafts,
                    StackStopped, PaymentsStopped, GolemStopped, DbStopped, YagnaStopped,
                    StepFails, Interrupt, pipelineVars, TallyInv
  <2>2. where' = where \/ RejectDrafts
        BY <1>2 DEF Begin, Step, Go, YagnaStarted, FundsPrepared, DbStarted, GolemStarted,
                    PaymentsStarted, StackCreated, StackStarted, GatheringEnds,
                    StackStopped, PaymentsStopped, GolemStopped, DbStopped, YagnaStopped,
                    StepFails, Interrupt, pipelineVars
  <2>3. ASSUME NEW t \in Tags
        PROVE  Past(t)' = Past(t)
    <3>1. \A x \in Proposals : where'[x] \in Ahead(t) <=> where[x] \in Ahead(t)
      <4>1. "taken" \notin Ahead(t) /\ "rejected" \notin Ahead(t)
            BY DEF Ahead, Tags
      <4> QED  BY <2>2, <4>1 DEF RejectDrafts
    <3> QED  BY <3>1 DEF Past
  <2>4. "Negotiated successfully" \in Tags
        BY DEF Tags
  <2> QED  BY <2>1, <2>3, <2>4 DEF TallyInv
<1>3. CASE Reputed \/ UNCHANGED vars
  <2>1. UNCHANGED <<up, where, tally, fails>>
        BY <1>3 DEF Reputed, vars, statsVars, pipelineVars, commandVars
  <2> QED  BY <2>1 DEF TallyInv, Past
<1> QED  BY <1>1, <1>2, <1>3 DEF Next

-----------------------------------------------------------------------------
(* Theorems. *)

LEMMA StatsInit == Init => RepInv /\ StatsInv
<1> SUFFICES ASSUME Init PROVE RepInv /\ StatsInv
    OBVIOUS
<1>1. RepInv
      BY RepInvInit DEF Init
<1>2. StatsTypes
      BY DEF Init, StatsTypes, Places, Tags
<1>3. BlockedInv /\ DraftInv /\ UpInv /\ ErrorInv
      BY DEF Init, BlockedInv, DraftInv, UpInv, ErrorInv, Stopping
<1>4. NegotiationsAccounted
  <2> DEFINE begun == tally["Negotiation initialized"]
             ended == tally["Negotiated successfully"]
             n     == Cardinality(Uncounted)
  <2>1. Uncounted = {}
        BY DEF Init, Uncounted
  <2>2. begun = 0 /\ ended = 0 /\ fails = 0
        BY DEF Init, Tags
  <2>3. n = 0
        BY <2>1, FS_EmptySet
  <2>4. SUFFICES begun = ended + fails + n
        BY DEF NegotiationsAccounted, Uncounted
  <2> HIDE DEF begun, ended, n
  <2> QED  BY <2>2, <2>3
<1> QED  BY <1>1, <1>2, <1>3, <1>4 DEF StatsInv

LEMMA StatsStep == RepInv /\ StatsInv /\ [Next]_vars => (RepInv /\ StatsInv)'
<1> SUFFICES ASSUME RepInv, StatsInv, [Next]_vars PROVE RepInv' /\ StatsInv'
    OBVIOUS
<1>1. RepInv'
      BY RepInvKept
<1>2. CASE UNCHANGED vars
  <2>1. UNCHANGED <<wanted, raced, where, tally, fails, phase, up, error, interrupted,
                    blockedBefore>>
        BY <1>2 DEF vars, statsVars, repVars, history, pipelineVars, commandVars
  <2>2. StatsTypes' /\ BlockedInv' /\ DraftInv'
        BY <2>1 DEF StatsInv, StatsTypes, BlockedInv, DraftInv
  <2>3. UpInv' /\ ErrorInv'
        BY <2>1 DEF StatsInv, UpInv, ErrorInv
  <2>4. NegotiationsAccounted /\ UNCHANGED <<where, tally, fails>>
        BY <2>1 DEF StatsInv
  <2>5. NegotiationsAccounted'
        BY <2>4 DEF NegotiationsAccounted, Uncounted
  <2> QED  BY <1>1, <2>2, <2>3, <2>5 DEF StatsInv
<1>3. CASE Next
      BY <1>1, <1>3, ReputedStep, PipelineStep, CommandStatsStep DEF Next
<1> QED  BY <1>2, <1>3

LEMMA StatsInvariants == Spec => [](RepInv /\ StatsInv)
<1> QED  BY StatsInit, StatsStep, PTL DEF Spec

(* The command only reads the reputation database: seen from the database the  *)
(* composition is what module Reputation says.                                *)
THEOREM ReadsOnly == Spec => RepSpec
<1>1. Init => RepInit
      BY DEF Init
<1>2. [Next]_vars => [RepNext]_repVars
      BY StatsLeaveRows
<1> QED  BY <1>1, <1>2, PTL DEF Spec, RepSpec

(* Every state has the types that TypeOK states: no counter runs past the number *)
(* of proposals that came in.                                                   *)
THEOREM TypeCorrect == Spec => []TypeOK
<1>1. Init => TallyInv
  <2> SUFFICES ASSUME Init PROVE TallyInv
      OBVIOUS
  <2>1. /\ up = {} /\ fails = 0 /\ \A t \in Tags : tally[t] = 0
        BY DEF Init
  <2>2. ASSUME NEW t
        PROVE  0 <= Cardinality(Past(t))
    <3>1. Cardinality(Past(t)) \in Nat
          BY PastFinite
    <3> DEFINE n == Cardinality(Past(t))
    <3> HIDE DEF n
    <3>2. n \in Nat => 0 <= n
          OBVIOUS
    <3> QED  BY <3>1, <3>2 DEF n
  <2> QED  BY <2>1, <2>2 DEF TallyInv
<1>2. StatsInv /\ TallyInv /\ [Next]_vars => TallyInv'
      BY TallyStep
<1>3. StatsInv /\ TallyInv /\ RepTypeOK => TypeOK
  <2> SUFFICES ASSUME StatsInv, TallyInv, RepTypeOK PROVE TypeOK
      OBVIOUS
  <2> DEFINE all == Cardinality(Proposals)
  <2>1. ASSUME NEW t, NEW k \in Nat, k <= Cardinality(Past(t))
        PROVE  k \in 0 .. all
    <3> DEFINE n == Cardinality(Past(t))
    <3>1. n \in Nat /\ all \in Nat /\ n <= all
          BY PastFinite
    <3> HIDE DEF n, all
    <3>2. k <= n
          BY <2>1 DEF n
    <3> QED  BY <3>1, <3>2
  <2>2. \A t \in Tags : tally[t] \in 0 .. all
    <3>1. \A t \in Tags : tally[t] \in Nat /\ tally[t] <= Cardinality(Past(t))
          BY DEF StatsInv, StatsTypes, TallyInv
    <3> QED  BY <2>1, <3>1
  <2>3. fails \in 0 .. all
    <3>1. fails \in Nat /\ fails <= Cardinality(Past("Negotiated successfully"))
          BY DEF StatsInv, StatsTypes, TallyInv
    <3> QED  BY <2>1, <3>1
  <2>4. tally \in [Tags -> 0 .. all]
        BY <2>2 DEF StatsInv, StatsTypes
  <2> QED  BY <2>3, <2>4 DEF StatsInv, StatsTypes, Places, TallyInv, TypeOK
<1> QED  BY <1>1, <1>2, <1>3, StatsInvariants, ReadsOnly, RowsTyped, PTL DEF Spec

(* A block holds in a pipeline that is running: nobody negotiates with a       *)
(* provider that was blocked before its proposal came in.                     *)
THEOREM BlockHolds == Spec => []BlockedNotNegotiated
<1>1. StatsInv => BlockedNotNegotiated
      BY DEF StatsInv, BlockedInv, BlockedNotNegotiated
<1> QED  BY <1>1, StatsInvariants, PTL

(* Whatever ends the gathering, the drafts that were taken are rejected before *)
(* their stack is stopped, but where CTRL-C cuts off the rejecting.           *)
THEOREM DraftsGivenBack == Spec => []DraftsReleased
<1>1. StatsInv => DraftsReleased
      BY DEF StatsInv, DraftInv, DraftsReleased, Stopping
<1> QED  BY <1>1, StatsInvariants, PTL

(* A command without errors that CTRL-C did not hit outside run stops its      *)
(* services; one it did not hit in run, but for the gathering, stops all.     *)
THEOREM NothingLeft == Spec => []NothingLeftBehind
<1>1. StatsInv => NothingLeftBehind
      BY DEF StatsInv, UpInv, NothingLeftBehind, Lent
<1> QED  BY <1>1, StatsInvariants, PTL

(* However many proposals are on their way, the printed counters add up with   *)
(* what is still under way and what get_demand_data has lost.                 *)
THEOREM CountersAddUp == Spec => []NegotiationsAccounted
<1>1. StatsInv => NegotiationsAccounted
      BY DEF StatsInv
<1> QED  BY <1>1, StatsInvariants, PTL

(* So blocks stick next to a running pipeline, blocked providers rank last, and *)
(* an update stores its scores.                                               *)
THEOREM BlocksStick == Spec => [](BlockSticksAlone /\ BlockedRankLast /\ UpdateStoresScores)
<1> QED  BY ReadsOnly, BlockStays, BlockedLast, ScoresStored, PTL
=============================================================================

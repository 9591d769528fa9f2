---------------------------- MODULE NetworkStats ----------------------------
(***************************************************************************)
(* The `network-stats` command: ray_on_golem/network_stats/main.py with    *)
(* network_stats/services/network_stats.py, whose pipeline of proposals    *)
(* asks the reputation database (plugins/blacklist.py) while the commands  *)
(* of module Reputation write to it.                                       *)
(*                                                                         *)
(* The buffers of golem-core let several proposals be on their way through *)
(* the pipeline at once.  All proposals are initial ones, so a blacklisted *)
(* or too expensive one is dropped without being rejected.                 *)
(***************************************************************************)
EXTENDS Reputation, FiniteSets

CONSTANTS
    Proposals,
    Issuer          \* the provider of each proposal

ASSUME StatsAssumption ==
    IsFiniteSet(Proposals) /\ Issuer \in [Proposals -> Providers]

VARIABLES
    phase,          \* what the command awaits
    up,             \* what it has started and not stopped
    error,          \* an exception is on its way out
    interrupted,    \* when CTRL-C was pressed
    where,          \* where each proposal is
    tally,          \* the counters of StatsPluginFactory
    fails,          \* the sum of StatsNegotiatingPlugin.fails
    blockedBefore   \* history: proposals whose provider is blocked since before
                    \* they came in

pipelineVars == <<where, tally, fails>>
commandVars  == <<phase, up, error, interrupted>>
statsVars == <<pipelineVars, commandVars, blockedBefore>>
vars == <<repVars, statsVars>>

Starting == {"yagna", "funds", "db", "golem"}
Running  == {"payments", "payloads", "stackstart", "gathering", "rejecting",
             "stackstop", "paymentstop"}
Stopping == {"golemstop", "dbstop", "yagnastop"}
Tags     == {"Initial", "Not blacklisted", "Passed", "Negotiation initialized",
             "Negotiated successfully"}

TypeOK ==
    /\ RepTypeOK
    /\ phase \in {"idle", "exited"} \cup Starting \cup Running \cup Stopping
    /\ up \subseteq {"yagna", "db", "golem", "payments", "stack"}
    /\ error \in BOOLEAN
    /\ interrupted \in {"no", "outside", "running", "gathering", "rejecting"}
    /\ where \in [Proposals -> {"market", "checking", "passed", "buffered", "negotiating",
                                "failed", "lost", "draft", "taken", "rejected",
                                "dropped"}]
    /\ tally \in [Tags -> 0 .. Cardinality(Proposals)]
    /\ fails \in 0 .. Cardinality(Proposals)
    /\ blockedBefore \subseteq Proposals

Init ==
    /\ RepInit
    /\ phase = "idle" /\ up = {} /\ error = FALSE /\ interrupted = "no"
    /\ where = [x \in Proposals |-> "market"]
    /\ tally = [t \in Tags |-> 0] /\ fails = 0
    /\ blockedBefore = {}

-----------------------------------------------------------------------------
(* The pipeline of _create_stack.  Each get_proposal counts what it passes on. *)

StackUp == "stack" \in up

Move(x, from, to) == where[x] = from /\ where' = [where EXCEPT ![x] = to]
Tally(t)          == tally' = [tally EXCEPT ![t] = @ + 1]

Receive(x) ==
    /\ StackUp
    /\ Move(x, "market", "checking")
    /\ Tally("Initial")
    /\ blockedBefore' = IF wanted[Issuer[x]] = "blocked" /\ Issuer[x] \notin raced
                          THEN blockedBefore \cup {x} ELSE blockedBefore
    /\ UNCHANGED <<repVars, commandVars, fails>>

(* Mutant: whoever has a row of his own is let through. *)
NotBlacklistedKnown(x) ==
    /\ StackUp
    /\ row[Issuer[x]] # None
    /\ Move(x, "checking", "passed")
    /\ Tally("Not blacklisted")
    /\ UNCHANGED <<repVars, commandVars, fails, blockedBefore>>

(* ProviderBlacklistPlugin *)
NotBlacklisted(x) ==
    /\ StackUp
    /\ ~Blacklisted(Issuer[x])
    /\ Move(x, "checking", "passed")
    /\ Tally("Not blacklisted")
    /\ UNCHANGED <<repVars, commandVars, fails, blockedBefore>>

(* Mutant: the proposal picked next is taken for another initial one. *)
DropRecounted(x) ==
    /\ StackUp
    /\ Blacklisted(Issuer[x])
    /\ Move(x, "checking", "dropped")
    /\ Tally("Initial")
    /\ UNCHANGED <<repVars, commandVars, fails, blockedBefore>>

DropBlacklisted(x) ==
    /\ StackUp
    /\ Blacklisted(Issuer[x])
    /\ Move(x, "checking", "dropped")
    /\ UNCHANGED <<repVars, commandVars, tally, fails, blockedBefore>>

(* RejectIfCostsExceeds, one for each limit of the budget control: any price  *)
CheckCosts(x) ==
    /\ StackUp
    /\ \/ Move(x, "passed", "dropped") /\ UNCHANGED tally
       \/ Move(x, "passed", "buffered") /\ Tally("Passed")
    /\ UNCHANGED <<repVars, commandVars, fails, blockedBefore>>

StartNegotiation(x) ==
    /\ StackUp
    /\ Move(x, "buffered", "negotiating")
    /\ Tally("Negotiation initialized")
    /\ UNCHANGED <<repVars, commandVars, fails, blockedBefore>>

Negotiated(x) ==
    /\ StackUp
    /\ Move(x, "negotiating", "draft")
    /\ Tally("Negotiated successfully")
    /\ UNCHANGED <<repVars, commandVars, fails, blockedBefore>>

(* A rejection, a refused response or a time-out *)
NegotiationFails(x) ==
    /\ StackUp
    /\ Move(x, "negotiating", "failed")
    /\ fails' = fails + 1
    /\ UNCHANGED <<repVars, commandVars, tally, blockedBefore>>

(* get_demand_data raised, before the try: no counter takes notice of it.  The *)
(* exception waits in the buffer for a get_draft_proposal to raise it.        *)
DemandFails(x) ==
    /\ StackUp
    /\ Move(x, "negotiating", "lost")
    /\ UNCHANGED <<repVars, commandVars, tally, fails, blockedBefore>>

(* get_draft_proposal in _consume_draft_proposals *)
TakeDraft(x) ==
    /\ phase = "gathering"
    /\ Move(x, "draft", "taken")
    /\ UNCHANGED <<repVars, commandVars, tally, fails, blockedBefore>>

Pipeline(x) ==
    \/ Receive(x) \/ NotBlacklisted(x) \/ DropBlacklisted(x) \/ CheckCosts(x)
    \/ StartNegotiation(x) \/ Negotiated(x) \/ NegotiationFails(x) \/ DemandFails(x)
    \/ TakeDraft(x)

-----------------------------------------------------------------------------
(* main: _start_services, NetworkStatsService.run, _stop_services *)

Go(from, to) ==
    /\ phase = from /\ phase' = to
    /\ UNCHANGED <<repVars, pipelineVars, interrupted, blockedBefore>>

Begin         == Go("idle", "yagna")     /\ UNCHANGED <<up, error>>
YagnaStarted  == Go("yagna", "funds")    /\ up' = up \cup {"yagna"}    /\ UNCHANGED error
FundsPrepared == Go("funds", "db")       /\ UNCHANGED <<up, error>>
DbStarted     == Go("db", "golem")       /\ up' = up \cup {"db"}       /\ UNCHANGED error
GolemStarted  == Go("golem", "payments") /\ up' = up \cup {"golem"}    /\ UNCHANGED error
PaymentsStarted ==
                 Go("payments", "payloads") /\ up' = up \cup {"payments"} /\ UNCHANGED error
StackCreated  == Go("payloads", "stackstart") /\ up' = up \cup {"stack"}  /\ UNCHANGED error
StackStarted  == Go("stackstart", "gathering") /\ UNCHANGED <<up, error>>

(* The time is over, or get_draft_proposal raised *)
GatheringEnds == Go("gathering", "rejecting") /\ error' \in BOOLEAN /\ UNCHANGED up

(* Mutant: only drafts gathered without an error are rejected. *)
RejectUnlessError ==
    /\ phase = "rejecting" /\ phase' = "stackstop"
    /\ where' = [x \in Proposals |->
                   IF where[x] = "taken" /\ ~error THEN "rejected" ELSE where[x]]
    /\ UNCHANGED <<repVars, tally, fails, up, error, interrupted, blockedBefore>>

(* The finally of _consume_draft_proposals; errors of a reject are gathered *)
RejectDrafts ==
    /\ phase = "rejecting" /\ phase' = "stackstop"
    /\ where' = [x \in Proposals |-> IF where[x] = "taken" THEN "rejected" ELSE where[x]]
    /\ UNCHANGED <<repVars, tally, fails, up, error, interrupted, blockedBefore>>

StackStopped  == Go("stackstop", "paymentstop") /\ up' = up \ {"stack"} /\ UNCHANGED error

(* The end of run: an exception of it is not caught in main *)
PaymentsStopped ==
    /\ Go("paymentstop", IF error THEN "exited" ELSE "golemstop")
    /\ up' = up \ {"payments"}
    /\ UNCHANGED error

GolemStopped == Go("golemstop", "dbstop") /\ up' = up \ {"golem"} /\ UNCHANGED error
DbStopped    == Go("dbstop", "yagnastop") /\ up' = up \ {"db"}    /\ UNCHANGED error
YagnaStopped == Go("yagnastop", "exited") /\ up' = up \ {"yagna"} /\ UNCHANGED error

Step ==
    \/ YagnaStarted \/ FundsPrepared \/ DbStarted \/ GolemStarted \/ PaymentsStarted
    \/ StackCreated \/ StackStarted \/ GatheringEnds \/ RejectDrafts
    \/ StackStopped \/ PaymentsStopped \/ GolemStopped \/ DbStopped \/ YagnaStopped

(* What is awaited raises: nothing is stopped.  A reputation service that      *)
(* fails to migrate closes its connections itself, and a yagna that does not   *)
(* start in time is left running.                                            *)
StepFails ==
    /\ phase \in (Starting \cup Running \cup Stopping) \ {"gathering", "rejecting"}
    /\ phase' = "exited" /\ error' = TRUE
    /\ up' \in {up, IF phase = "yagna" THEN {"yagna"} ELSE up}
    /\ UNCHANGED <<repVars, pipelineVars, interrupted, blockedBefore>>

When == IF phase \in Starting \cup Stopping THEN "outside"
        ELSE IF phase \in {"gathering", "rejecting"} THEN phase ELSE "running"

(* Mutant: CTRL-C ends the command wherever it is. *)
InterruptExits ==
    /\ phase \notin {"idle", "exited"} /\ interrupted = "no" /\ ~error
    /\ interrupted' = When
    /\ phase' = "exited"
    /\ UNCHANGED <<repVars, pipelineVars, up, error, blockedBefore>>

(* CTRL-C.  While run is under way it is cancelled at its await, its finally   *)
(* clauses run, and the services are stopped; before and after it the          *)
(* command is over at once.                                                  *)
Interrupt ==
    /\ phase \notin {"idle", "exited"} /\ interrupted = "no" /\ ~error
    /\ interrupted' = When
    /\ phase' = IF phase \in Starting \cup Stopping THEN "exited"
                ELSE IF phase = "gathering" THEN "rejecting"
                ELSE IF phase = "rejecting" THEN "stackstop" ELSE "golemstop"
    /\ UNCHANGED <<repVars, pipelineVars, up, error, blockedBefore>>

-----------------------------------------------------------------------------
(* A provider that gets unblocked, or whose row is raced for, is blocked no more *)
Reputed ==
    /\ RepNext
    /\ blockedBefore' =
         {x \in blockedBefore : wanted'[Issuer[x]] = "blocked" /\ Issuer[x] \notin raced'}
    /\ UNCHANGED <<pipelineVars, commandVars>>

Next ==
    \/ Reputed
    \/ \E x \in Proposals : Pipeline(x)
    \/ Begin \/ Step \/ StepFails \/ Interrupt

(* What the command awaits returns or raises, the gathering for its time-out. *)
Spec == Init /\ [][Next]_vars /\ WF_vars(Step)

-----------------------------------------------------------------------------
(* Properties. *)

(* A command that ends by itself, or by CTRL-C while it gathers, leaves nothing *)
(* behind; one that is interrupted anywhere in run stops the services.         *)
NothingLeftBehind ==
    phase = "exited" /\ ~error =>
        /\ interrupted \in {"no", "gathering"} => up = {}
        /\ interrupted # "outside" => up \subseteq {"payments", "stack"}

(* The drafts it took are rejected before the stack they came from is stopped, *)
(* unless CTRL-C cuts off the rejecting itself.                               *)
DraftsReleased ==
    phase \in {"paymentstop"} \cup Stopping \cup {"exited"} /\ interrupted # "rejecting"
        => \A x \in Proposals : where[x] # "taken"

(* However many overlap, what the printed counters miss of the negotiations    *)
(* that were initialized is what is still under way or cut off, and what was   *)
(* lost to an error of get_demand_data.                                       *)
Uncounted == {x \in Proposals : where[x] \in {"negotiating", "lost"}}

NegotiationsAccounted ==
    tally["Negotiation initialized"] =
        tally["Negotiated successfully"] + fails + Cardinality(Uncounted)

(* Nobody negotiates with a provider that was blocked before its proposal came *)
(* in: the blacklist of another process holds in a pipeline that is running.   *)
BlockedNotNegotiated ==
    \A x \in blockedBefore : where[x] \in {"checking", "dropped"}

=============================================================================

--------------------------- MODULE Configuration ---------------------------
(***************************************************************************)
(* From the cluster's yaml file to the demands on the market: the defaults *)
(* of ray_on_golem/provider/node_provider.py, the parsing of               *)
(* server/models.py, server/services/golem/helpers/demand_config.py, and   *)
(* the choice of a manager stack by NodeConfigData.get_hash in             *)
(* server/cluster/cluster.py.  Stacks are not stopped here, and a stack is *)
(* created in one step: module Cluster has the awaits and the stops.       *)
(***************************************************************************)
EXTENDS Naturals, Sequences

CONSTANTS
    NodeTypes,      \* available_node_types
    HeadType,       \* head_node_type
    Files,          \* the configurations: a layer for the provider's node_config
                    \* and one for that of each node type
    Requests,       \* the request_nodes calls
    None

Lists   == {"capabilities", "outbound_urls"}
Scalars == {"subnet_tag", "priority_subnet_tag", "image_tag", "image_hash"}
Keys    == Lists \cup Scalars

(* A node_config: lists of strings, and a subnet_tag that is a string if given *)
IsLayer(l) ==
    /\ l = [k \in DOMAIN l |-> l[k]] /\ DOMAIN l \subseteq Keys
    /\ \A k \in Lists \cap DOMAIN l : l[k] \in Seq(STRING)
    /\ "subnet_tag" \in DOMAIN l => l["subnet_tag"] # None

ASSUME ConfigurationAssumption ==
    /\ HeadType \in NodeTypes /\ None \notin {"public", "heads"}
    /\ \A f \in Files : /\ IsLayer(f.provider)
                        /\ f.types = [t \in NodeTypes |-> f.types[t]]
                        /\ \A t \in NodeTypes : IsLayer(f.types[t])

VARIABLES
    phase,          \* how far the command is
    provider,       \* provider.parameters.node_config with its defaults
    raw,            \* history: the provider's and each type's layer in the file
    types,          \* available_node_types, the node_config of each
    todo,           \* the node types whose defaults are still to be applied
    request,        \* where each request is
    typeOf,         \* the node type it asks for
    config,         \* its NodeConfigData
    got,            \* the stacks it got
    stacks          \* _manager_stacks: the stack under each hash

typeVars == <<phase, provider, raw, types, todo>>
requestVars == <<request, typeOf, config, got>>
vars == <<typeVars, requestVars, stacks>>

-----------------------------------------------------------------------------
(* dpath.merge, which adds lists, and the models' defaults *)

Merge(a, b) ==
    [k \in DOMAIN a \cup DOMAIN b |->
        IF k \notin DOMAIN b THEN a[k]
        ELSE IF k \in Lists \cap DOMAIN a THEN a[k] \o b[k] ELSE b[k]]

ProviderDefaults == [k \in {"subnet_tag"} |-> "public"]
HeadDefaults     == [k \in {"priority_subnet_tag"} |-> "heads"]
NoDefaults       == [k \in {} |-> "public"]

Defaults(t) == IF t = HeadType THEN HeadDefaults ELSE NoDefaults

(* NodeConfigData and DemandConfigData *)
Parse(layer) ==
    [k \in Keys |->
        IF k \in DOMAIN layer THEN layer[k]
        ELSE CASE k = "capabilities"  -> <<"vpn", "inet">>
               [] k = "outbound_urls" -> <<>>
               [] OTHER               -> None]

TypeOK ==
    /\ phase \in {"defaults", "wallet", "up", "aborted"}
    /\ DOMAIN types = NodeTypes /\ todo \subseteq NodeTypes
    /\ request \in [Requests -> {"idle", "priority", "main", "done", "refused", "error"}]
    /\ typeOf \in [Requests -> NodeTypes]
    /\ \A r \in Requests : Len(got[r]) <= 2
    /\ \A s, t \in stacks : s.hash = t.hash => s = t

Init ==
    /\ phase = "defaults"
    /\ raw \in Files
    /\ provider = Merge(ProviderDefaults, raw.provider)
    /\ types = raw.types
    /\ todo = NodeTypes
    /\ request = [r \in Requests |-> "idle"]
    /\ typeOf = [r \in Requests |-> HeadType]
    /\ config = [r \in Requests |-> Parse(NoDefaults)]
    /\ got = [r \in Requests |-> <<>>]
    /\ stacks = {}

-----------------------------------------------------------------------------
(* _apply_config_defaults *)

(* Mutant: the provider's node_config is merged into without a copy. *)
ApplyDefaultsShared(t) ==
    /\ phase = "defaults" /\ t \in todo
    /\ types' = [types EXCEPT ![t] = Merge(Merge(Defaults(t), provider), @)]
    /\ provider' = [k \in DOMAIN provider |->
                      IF k \in Lists THEN types'[t][k] ELSE provider[k]]
    /\ todo' = todo \ {t}
    /\ UNCHANGED <<phase, raw, requestVars, stacks>>

ApplyDefaults(t) ==
    /\ phase = "defaults" /\ t \in todo
    /\ types' = [types EXCEPT ![t] = Merge(Merge(Defaults(t), provider), @)]
    /\ todo' = todo \ {t}
    /\ UNCHANGED <<phase, provider, raw, requestVars, stacks>>

DefaultsApplied ==
    /\ phase = "defaults" /\ todo = {}
    /\ phase' = "wallet"
    /\ UNCHANGED <<provider, raw, types, todo, requestVars, stacks>>

(* GolemNodeProvider.__init__ aborts on an empty wallet *)
CheckWallet ==
    /\ phase = "wallet"
    /\ phase' \in {"up", "aborted"}
    /\ UNCHANGED <<provider, raw, types, todo, requestVars, stacks>>

-----------------------------------------------------------------------------
(* request_nodes and _get_or_create_manager_stack *)

(* Each request parses the configuration it carries anew *)
Ask(r, t) ==
    /\ phase = "up" /\ request[r] = "idle"
    /\ typeOf' = [typeOf EXCEPT ![r] = t]
    /\ config' = [config EXCEPT ![r] = Parse(types[t])]
    /\ request' = [request EXCEPT ![r] =
                     IF config'[r]["priority_subnet_tag"] # None THEN "priority" ELSE "main"]
    /\ UNCHANGED <<typeVars, got, stacks>>

Subnet(r) == config[r][IF request[r] = "priority" THEN "priority_subnet_tag" ELSE "subnet_tag"]

(* Mutant: only the subnet makes a stack. *)
HashOfSubnet(r) == <<Parse(NoDefaults), Subnet(r)>>

(* get_hash: of the configuration as it is now, which get_payloads may change  *)
Hash(r) == <<config[r], Subnet(r)>>

Asking(r) == request[r] \in {"priority", "main"}
Found(r)  == {s \in stacks : s.hash = Hash(r)}

(* Mutant: the priority subnet is asked for until there is a main one. *)
GoOnWithPriority(r, s) ==
    /\ got' = [got EXCEPT ![r] = Append(@, s)]
    /\ request' = [request EXCEPT ![r] = IF @ = "priority" THEN @ ELSE "done"]
    /\ UNCHANGED <<typeVars, typeOf>>

GoOnWith(r, s) ==
    /\ got' = [got EXCEPT ![r] = Append(@, s)]
    /\ request' = [request EXCEPT ![r] = IF @ = "priority" THEN "main" ELSE "done"]
    /\ UNCHANGED <<typeVars, typeOf>>

UseStack(r) ==
    /\ Asking(r)
    /\ \E s \in Found(r) : GoOnWith(r, s)
    /\ UNCHANGED <<config, stacks>>

(* _get_image_url_and_hash: the registry has one image for a tag or a hash *)
ImageOf(c) == IF c["image_hash"] # None THEN <<"hash", c["image_hash"]>>
                                        ELSE <<"tag", c["image_tag"]>>

(* Mutant: a hash goes before a tag. *)
ImageGivenAny(c) == c["image_tag"] # None \/ c["image_hash"] # None

ImageGiven(c) == (c["image_tag"] = None) # (c["image_hash"] = None)

SupportsManifest(c) ==
    \E i \in DOMAIN c["capabilities"] : c["capabilities"][i] = "manifest-support"

(* Mutant: manifest-support is demanded for a repository payload too. *)
WithManifestAlways(c) ==
    IF SupportsManifest(c) THEN c
    ELSE [c EXCEPT !["capabilities"] = Append(@, "manifest-support")]

(* get_payloads_from_demand_config appends to the configuration's own list *)
WithManifest(c) ==
    IF c["outbound_urls"] = <<>> \/ SupportsManifest(c) THEN c
    ELSE [c EXCEPT !["capabilities"] = Append(@, "manifest-support")]

(* A repository or, with outbound urls, a manifest payload, in that subnet *)
Demand(r) ==
    [hash |-> Hash(r), subnet |-> Subnet(r), image |-> ImageOf(config[r]),
     urls |-> config[r]["outbound_urls"],
     capabilities |-> WithManifest(config[r])["capabilities"]]

MakeStack(r) ==
    /\ Asking(r) /\ Found(r) = {} /\ ImageGiven(config[r])
    /\ stacks' = stacks \cup {Demand(r)}
    /\ config' = [config EXCEPT ![r] = WithManifest(@)]
    /\ GoOnWith(r, Demand(r))

Fail(r, how) ==
    /\ request' = [request EXCEPT ![r] = how]
    /\ UNCHANGED <<typeVars, typeOf, config, got, stacks>>

(* RegistryRequestError is answered 400 *)
RegistryRefuses(r) ==
    /\ Asking(r) /\ Found(r) = {} /\ ImageGiven(config[r])
    /\ Fail(r, "refused")

(* An answer that is not json is not caught, and neither is the TypeError that *)
(* RayOnGolemServerError, whose message is None, raises in its place: 500     *)
RequestErrs(r) ==
    /\ Asking(r) /\ Found(r) = {}
    /\ Fail(r, "error")

Next ==
    \/ \E t \in NodeTypes : ApplyDefaults(t)
    \/ DefaultsApplied \/ CheckWallet
    \/ \E r \in Requests :
         \/ \E t \in NodeTypes : Ask(r, t)
         \/ UseStack(r) \/ MakeStack(r) \/ RegistryRefuses(r) \/ RequestErrs(r)

Spec == Init /\ [][Next]_vars

-----------------------------------------------------------------------------
(* Properties. *)

(* A node type's configuration is its own over the provider's over the         *)
(* defaults, in whatever order the types are gone through: none of them leaks  *)
(* into another one, and a list has what the file lists for that type.        *)
TypesAreIndependent ==
    \A t \in NodeTypes \ todo :
        /\ \A k \in Scalars :
             LET layers == <<raw.types[t], raw.provider, Defaults(t), ProviderDefaults>>
                 named  == {i \in 1 .. 4 : k \in DOMAIN layers[i]}
             IN  IF named = {}
                   THEN k \notin DOMAIN types[t]
                   ELSE \E i \in named : /\ \A j \in named : i <= j
                                         /\ types[t][k] = layers[i][k]
        /\ \A k \in Lists \cap DOMAIN types[t] :
             LET own(l) == IF k \in DOMAIN l THEN Len(l[k]) ELSE 0
             IN  Len(types[t][k]) = own(raw.provider) + own(raw.types[t])

(* The stacks a node is given ask the market for what its node type says, first *)
(* in the priority subnet, then in the main one, whichever request created them. *)
NodesGetTheirDemand ==
    \A r \in Requests : request[r] = "done" =>
        LET c == Parse(types[typeOf[r]])
            subnets == IF c["priority_subnet_tag"] = None THEN <<c["subnet_tag"]>>
                       ELSE <<c["priority_subnet_tag"], c["subnet_tag"]>>
        IN  /\ Len(got[r]) = Len(subnets)
            /\ \A i \in DOMAIN got[r] :
                 /\ got[r][i].subnet = subnets[i]
                 /\ got[r][i].image = ImageOf(c) /\ got[r][i].urls = c["outbound_urls"]
                 /\ (c["outbound_urls"] # <<>>) =>
                      \E j \in DOMAIN got[r][i].capabilities :
                          got[r][i].capabilities[j] = "manifest-support"

(* Nodes of one configuration share their stacks, whatever other requests come *)
(* in between.  Only where manifest-support is added to the configuration after *)
(* its priority stack may there be a second main one.                         *)
OneStackPerConfig ==
    \A q, r \in Requests :
        LET c == Parse(types[typeOf[r]]) IN
        Parse(types[typeOf[q]]) = c =>
            \A i \in DOMAIN got[q] \cap DOMAIN got[r] :
                \/ got[q][i] = got[r][i]
                \/ i = 2 /\ c["outbound_urls"] # <<>> /\ ~SupportsManifest(c)

(* Where image_tag and image_hash are both given, or neither is, which a file  *)
(* that mixes them over its layers does, no stack is ever made of it.         *)
BadImageMakesNoStack ==
    \A r \in Requests :
        (config[r]["image_tag"] = None) = (config[r]["image_hash"] = None) =>
            got[r] = <<>> /\ request[r] \notin {"done", "refused"}
=============================================================================

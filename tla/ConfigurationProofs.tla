------------------------ MODULE ConfigurationProofs ------------------------
(***************************************************************************)
(* Proofs about Configuration, for any files, node types and requests:     *)
(* each node type has its own configuration, and its nodes the stacks that *)
(* were made for that.                                                     *)
(***************************************************************************)
EXTENDS Configuration, TLAPS

(* STRING, with the capabilities that the code adds: the provers do not see *)
(* that a string is in STRING.                                              *)
Texts == STRING \cup {"vpn", "inet", "manifest-support"}

(* A NodeConfigData *)
IsConfig(c) ==
    /\ c = [k \in Keys |-> c[k]]
    /\ c["capabilities"] \in Seq(Texts) /\ c["outbound_urls"] \in Seq(Texts)

(* The layers of a node type before and after its defaults were applied *)
LayersInv ==
    /\ raw \in Files
    /\ provider = Merge(ProviderDefaults, raw.provider)
    /\ types = [t \in NodeTypes |->
                  IF t \in todo THEN raw.types[t]
                  ELSE Merge(Merge(Defaults(t), provider), raw.types[t])]
    /\ todo \subseteq NodeTypes
    /\ phase \in {"defaults", "wallet", "up", "aborted"}
    /\ phase # "defaults" => todo = {}

(* A stack is what was made of the configuration in its hash *)
MadeOf(h) ==
    [hash |-> h, subnet |-> h[2], image |-> ImageOf(h[1]), urls |-> h[1]["outbound_urls"],
     capabilities |-> WithManifest(h[1])["capabilities"]]

StackInv ==
    \A s \in stacks : /\ s = MadeOf(s.hash) /\ s.hash = <<s.hash[1], s.hash[2]>>
                      /\ IsConfig(s.hash[1]) /\ ImageGiven(s.hash[1])

(* What a request asks for, and where *)
Asked(r) == Parse(types[typeOf[r]])

Subnets(c) ==
    IF c["priority_subnet_tag"] = None THEN <<c["subnet_tag"]>>
    ELSE <<c["priority_subnet_tag"], c["subnet_tag"]>>

(* The configuration of a request is as parsed until it makes a stack, and its *)
(* stacks are those of its configuration, one for each subnet                *)
Got(r, i) ==
    \/ got[r][i].hash = <<Asked(r), Subnets(Asked(r))[i]>>
    \/ i = 2 /\ got[r][i].hash = <<WithManifest(Asked(r)), Subnets(Asked(r))[i]>>

RequestOK(r) ==
    /\ request[r] = "idle" => got[r] = <<>> /\ config[r] = Parse(NoDefaults)
    /\ request[r] # "idle" =>
         /\ phase = "up"
         /\ config[r] = Asked(r) \/ (got[r] # <<>> /\ config[r] = WithManifest(Asked(r)))
    /\ \A i \in 1 .. Len(got[r]) : Got(r, i)
    /\ Len(got[r]) <= Len(Subnets(Asked(r)))
    /\ request[r] = "priority" => got[r] = <<>> /\ Asked(r)["priority_subnet_tag"] # None
    /\ request[r] = "main" => Len(got[r]) = Len(Subnets(Asked(r))) - 1
    /\ request[r] = "done" => Len(got[r]) = Len(Subnets(Asked(r)))
    /\ got[r] # <<>> \/ request[r] \in {"done", "refused"} => ImageGiven(config[r])

RequestInv ==
    /\ request \in [Requests -> {"idle", "priority", "main", "done", "refused", "error"}]
    /\ typeOf \in [Requests -> NodeTypes]
    /\ config = [r \in Requests |-> config[r]]
    /\ got \in [Requests -> Seq(stacks)]
    /\ \A r \in Requests : RequestOK(r)

ConfigInv == LayersInv /\ StackInv /\ RequestInv

-----------------------------------------------------------------------------
(* Layers and configurations. *)

(* Merging two layers gives a layer, with the keys of both: b goes before a,   *)
(* and lists are added.                                                      *)
MergeOf(m, a, b) ==
    /\ IsLayer(m)
    /\ DOMAIN m = DOMAIN a \cup DOMAIN b
    /\ \A k \in Scalars : /\ k \in DOMAIN b => m[k] = b[k]
                          /\ k \in DOMAIN a \ DOMAIN b => m[k] = a[k]
    /\ \A k \in Lists : /\ k \in DOMAIN a \ DOMAIN b => m[k] = a[k]
                        /\ k \in DOMAIN b \ DOMAIN a => m[k] = b[k]
                        /\ k \in DOMAIN a \cap DOMAIN b => m[k] = a[k] \o b[k]

LEMMA MergeLayers ==
    ASSUME NEW a, NEW b, IsLayer(a), IsLayer(b)
    PROVE  MergeOf(Merge(a, b), a, b)
<1> DEFINE m == Merge(a, b)
<1>1. DOMAIN m = DOMAIN a \cup DOMAIN b /\ m = [k \in DOMAIN m |-> m[k]]
      BY DEF Merge
<1>2. \A k \in Scalars : /\ k \in DOMAIN b => m[k] = b[k]
                         /\ k \in DOMAIN a \ DOMAIN b => m[k] = a[k]
      BY DEF Merge, Scalars, Lists
<1>3. \A k \in Lists : /\ k \in DOMAIN a \ DOMAIN b => m[k] = a[k]
                       /\ k \in DOMAIN b \ DOMAIN a => m[k] = b[k]
                       /\ k \in DOMAIN a \cap DOMAIN b => m[k] = a[k] \o b[k]
      BY DEF Merge
<1> HIDE DEF m
<1>4. \A k \in Lists \cap DOMAIN m : m[k] \in Seq(STRING)
  <2> TAKE k \in Lists \cap DOMAIN m
  <2>1. /\ k \in DOMAIN a => a[k] \in Seq(STRING)
        /\ k \in DOMAIN b => b[k] \in Seq(STRING)
        BY DEF IsLayer
  <2>2. CASE k \in DOMAIN a \cap DOMAIN b
    <3>1. a[k] \o b[k] \in Seq(STRING)
          BY <2>1, <2>2
    <3> QED  BY <1>3, <2>2, <3>1
  <2>3. CASE k \notin DOMAIN a \cap DOMAIN b
        BY <1>1, <1>3, <2>1, <2>3
  <2> QED  BY <2>2, <2>3
<1>5. "subnet_tag" \in DOMAIN m => m["subnet_tag"] # None
  <2>1. "subnet_tag" \in Scalars
        BY DEF Scalars
  <2> QED  BY <1>1, <1>2, <2>1 DEF IsLayer
<1>6. DOMAIN m \subseteq Keys
      BY <1>1 DEF IsLayer
<1> QED  BY <1>1, <1>2, <1>3, <1>4, <1>5, <1>6 DEF IsLayer, MergeOf, m

(* The built-in defaults are layers, without lists. *)
LEMMA DefaultLayers ==
    /\ IsLayer(ProviderDefaults) /\ DOMAIN ProviderDefaults = {"subnet_tag"}
    /\ IsLayer(NoDefaults) /\ DOMAIN NoDefaults = {}
    /\ \A t : IsLayer(Defaults(t)) /\ DOMAIN Defaults(t) \subseteq {"priority_subnet_tag"}
<1> USE ConfigurationAssumption DEF Keys, Lists, Scalars
<1>1. IsLayer(ProviderDefaults) /\ DOMAIN ProviderDefaults = {"subnet_tag"}
      BY DEF IsLayer, ProviderDefaults
<1>2. IsLayer(NoDefaults) /\ DOMAIN NoDefaults = {}
      BY DEF IsLayer, NoDefaults
<1>3. IsLayer(HeadDefaults) /\ DOMAIN HeadDefaults = {"priority_subnet_tag"}
      BY DEF IsLayer, HeadDefaults
<1> QED  BY <1>1, <1>2, <1>3 DEF Defaults

(* What is parsed from a layer is a configuration. *)
LEMMA ParsedLayer ==
    ASSUME NEW l, IsLayer(l)
    PROVE  /\ IsConfig(Parse(l))
           /\ "subnet_tag" \in DOMAIN l => Parse(l)["subnet_tag"] # None
<1>1. Parse(l) = [k \in Keys |-> Parse(l)[k]]
      BY DEF Parse
<1>2. /\ "capabilities" \in Keys \cap Lists /\ "outbound_urls" \in Keys \cap Lists
      /\ "subnet_tag" \in Keys
      BY DEF Keys, Lists, Scalars
<1>3. /\ Parse(l)["capabilities"] =
           IF "capabilities" \in DOMAIN l THEN l["capabilities"] ELSE <<"vpn", "inet">>
      /\ Parse(l)["outbound_urls"] =
           IF "outbound_urls" \in DOMAIN l THEN l["outbound_urls"] ELSE <<>>
      /\ "subnet_tag" \in DOMAIN l => Parse(l)["subnet_tag"] = l["subnet_tag"]
      BY <1>2 DEF Parse
<1>4. <<"vpn", "inet">> \in Seq(Texts) /\ <<>> \in Seq(Texts)
  <2>1. ASSUME NEW x \in Texts, NEW y \in Texts
        PROVE  <<x, y>> \in Seq(Texts) /\ <<>> \in Seq(Texts)
        OBVIOUS
  <2>2. "vpn" \in Texts /\ "inet" \in Texts
        BY DEF Texts
  <2> QED  BY <2>1, <2>2
<1>5. \A s \in Seq(STRING) : s \in Seq(Texts)
  <2> SUFFICES ASSUME NEW s \in Seq(STRING) PROVE s \in Seq(Texts)
      OBVIOUS
  <2>1. s \in [1 .. Len(s) -> STRING] /\ Len(s) \in Nat
        OBVIOUS
  <2>2. s \in [1 .. Len(s) -> Texts]
        BY <2>1 DEF Texts
  <2> QED  BY <2>1, <2>2
<1> QED  BY <1>1, <1>2, <1>3, <1>4, <1>5 DEF IsConfig, IsLayer

(* Appending manifest-support changes the capabilities only, and only once; it *)
(* is there afterwards if there are outbound urls.                            *)
LEMMA Manifested ==
    ASSUME NEW c, IsConfig(c)
    PROVE  LET w == WithManifest(c) IN
           /\ IsConfig(w) /\ WithManifest(w) = w
           /\ \A k \in Keys \ {"capabilities"} : w[k] = c[k]
           /\ ImageGiven(w) <=> ImageGiven(c)
           /\ ImageOf(w) = ImageOf(c)
           /\ c["outbound_urls"] # <<>> => SupportsManifest(w)
           /\ c["outbound_urls"] = <<>> \/ SupportsManifest(c) => w = c
<1> DEFINE w == WithManifest(c)
<1>1. "capabilities" \in Keys /\ {"outbound_urls", "image_tag", "image_hash"} \subseteq Keys
      BY DEF Keys, Lists, Scalars
<1>2. CASE c["outbound_urls"] = <<>> \/ SupportsManifest(c)
  <2>1. w = c
        BY <1>2 DEF WithManifest
  <2> QED  BY <1>2, <2>1
<1>3. CASE ~(c["outbound_urls"] = <<>> \/ SupportsManifest(c))
  <2>1. w = [c EXCEPT !["capabilities"] = Append(@, "manifest-support")]
        BY <1>3 DEF WithManifest
  <2>2. /\ w = [k \in Keys |-> w[k]]
        /\ w["capabilities"] = Append(c["capabilities"], "manifest-support")
        /\ \A k \in Keys \ {"capabilities"} : w[k] = c[k]
        BY <1>1, <2>1 DEF IsConfig
  <2> HIDE DEF w
  <2>3. /\ w["capabilities"] \in Seq(Texts)
        /\ Len(w["capabilities"]) \in DOMAIN w["capabilities"]
        /\ w["capabilities"][Len(w["capabilities"])] = "manifest-support"
    <3>1. ASSUME NEW s \in Seq(Texts), NEW x \in Texts
          PROVE  /\ Append(s, x) \in Seq(Texts)
                 /\ Len(Append(s, x)) \in DOMAIN Append(s, x)
                 /\ Append(s, x)[Len(Append(s, x))] = x
          OBVIOUS
    <3>2. "manifest-support" \in Texts
          BY DEF Texts
    <3>3. c["capabilities"] \in Seq(Texts)
          BY DEF IsConfig
    <3> QED  BY <2>2, <3>1, <3>2, <3>3
  <2>4. SupportsManifest(w)
        BY <2>3 DEF SupportsManifest
  <2>5. /\ w["outbound_urls"] = c["outbound_urls"] /\ w["image_tag"] = c["image_tag"]
        /\ w["image_hash"] = c["image_hash"]
        BY <1>1, <2>2
  <2>6. IsConfig(w) /\ WithManifest(w) = w
        BY <2>2, <2>3, <2>4, <2>5 DEF IsConfig, WithManifest
  <2> QED  BY <1>3, <2>2, <2>4, <2>5, <2>6 DEF ImageGiven, ImageOf, w
<1> QED  BY <1>2, <1>3

(* The configurations of a file that was read, whatever layers it has. *)
LEMMA AskedConfig ==
    ASSUME LayersInv, todo = {}, NEW t \in NodeTypes
    PROVE  IsConfig(Parse(types[t])) /\ Parse(types[t])["subnet_tag"] # None
<1>1. IsLayer(raw.provider) /\ IsLayer(raw.types[t])
      BY ConfigurationAssumption DEF LayersInv
<1>2. provider = Merge(ProviderDefaults, raw.provider)
      BY DEF LayersInv
<1>3. IsLayer(provider) /\ "subnet_tag" \in DOMAIN provider
  <2>1. MergeOf(provider, ProviderDefaults, raw.provider)
        BY <1>1, <1>2, MergeLayers, DefaultLayers
  <2> QED  BY <2>1, DefaultLayers DEF MergeOf
<1> DEFINE d == Merge(Defaults(t), provider)
<1>4. MergeOf(d, Defaults(t), provider)
      BY <1>3, MergeLayers, DefaultLayers
<1>5. types[t] = Merge(d, raw.types[t])
      BY DEF LayersInv
<1> HIDE DEF d
<1>6. IsLayer(d) /\ "subnet_tag" \in DOMAIN d
      BY <1>3, <1>4 DEF MergeOf
<1>7. IsLayer(types[t]) /\ "subnet_tag" \in DOMAIN types[t]
  <2>1. MergeOf(types[t], d, raw.types[t])
        BY <1>1, <1>5, <1>6, MergeLayers
  <2> QED  BY <1>6, <2>1 DEF MergeOf
<1> QED  BY <1>7, ParsedLayer

-----------------------------------------------------------------------------
(* The invariant. *)

LEMMA InvInit == Init => ConfigInv
<1> SUFFICES ASSUME Init PROVE ConfigInv
    OBVIOUS
<1>1. raw.types = [t \in NodeTypes |-> raw.types[t]]
      BY ConfigurationAssumption DEF Init
<1>2. LayersInv
      BY <1>1 DEF Init, LayersInv
<1>3. StackInv
      BY DEF Init, StackInv
<1>4. got \in [Requests -> Seq(stacks)] /\ config = [r \in Requests |-> config[r]]
      BY DEF Init
<1>5. \A r \in Requests : /\ got[r] = <<>> /\ request[r] = "idle"
                          /\ config[r] = Parse(NoDefaults)
      BY DEF Init
<1>6. \A r \in Requests : Len(Subnets(Asked(r))) \in Nat
      BY DEF Subnets
<1>7. typeOf \in [Requests -> NodeTypes]
      BY ConfigurationAssumption DEF Init
<1>8. request \in [Requests -> {"idle", "priority", "main", "done", "refused", "error"}]
      BY DEF Init
<1>9. RequestInv
      BY <1>4, <1>5, <1>6, <1>7, <1>8 DEF RequestInv, RequestOK
<1> QED  BY <1>2, <1>3, <1>9 DEF ConfigInv

(* Before the node provider is up nobody asks, so the layers may change. *)
LEMMA LayersStep ==
    ASSUME ConfigInv,
           (\E t \in NodeTypes : ApplyDefaults(t)) \/ DefaultsApplied \/ CheckWallet
    PROVE  ConfigInv'
<1>1. \A r \in Requests : request[r] = "idle"
      BY DEF ConfigInv, RequestInv, RequestOK, ApplyDefaults, DefaultsApplied, CheckWallet
<1>2. UNCHANGED <<request, typeOf, config, got, stacks, raw, provider>>
      BY DEF requestVars, ApplyDefaults, DefaultsApplied, CheckWallet
<1>3. StackInv'
      BY <1>2 DEF ConfigInv, StackInv
<1>4. RequestInv'
  <2>1. \A r \in Requests : got'[r] = <<>> /\ Len(Subnets(Asked(r)))' \in Nat
        BY <1>1, <1>2 DEF ConfigInv, RequestInv, RequestOK, Subnets
  <2>2. \A r \in Requests : RequestOK(r)'
        BY <1>1, <1>2, <2>1 DEF ConfigInv, RequestInv, RequestOK
  <2> QED  BY <1>2, <2>2 DEF ConfigInv, RequestInv
<1>5. CASE \E t \in NodeTypes : ApplyDefaults(t)
  <2>1. PICK t \in NodeTypes : ApplyDefaults(t)
        BY <1>5
  <2>2. /\ types[t] = raw.types[t] /\ todo' = todo \ {t} /\ phase' = phase
        /\ types' = [types EXCEPT ![t] = Merge(Merge(Defaults(t), provider), raw.types[t])]
        BY <2>1 DEF ApplyDefaults, ConfigInv, LayersInv
  <2>3. LayersInv'
        BY <1>2, <2>1, <2>2 DEF ApplyDefaults, ConfigInv, LayersInv
  <2> QED  BY <1>3, <1>4, <2>3 DEF ConfigInv
<1>6. CASE DefaultsApplied \/ CheckWallet
  <2>1. LayersInv'
        BY <1>2, <1>6 DEF DefaultsApplied, CheckWallet, ConfigInv, LayersInv
  <2> QED  BY <1>3, <1>4, <2>1 DEF ConfigInv
<1> QED  BY <1>5, <1>6

(* A request that is not asking for a stack, or fails, leaves the others alone. *)
LEMMA AskStep ==
    ASSUME ConfigInv, NEW r \in Requests,
           \/ \E t \in NodeTypes : Ask(r, t)
           \/ RegistryRefuses(r) \/ RequestErrs(r)
    PROVE  ConfigInv'
<1>1. /\ UNCHANGED <<phase, provider, raw, types, todo, got, stacks>>
      /\ \A q \in Requests : q # r => /\ request'[q] = request[q] /\ typeOf'[q] = typeOf[q]
                                      /\ config'[q] = config[q]
      BY DEF Ask, RegistryRefuses, RequestErrs, Fail, typeVars, ConfigInv, RequestInv
<1>2. LayersInv' /\ StackInv'
      BY <1>1 DEF ConfigInv, LayersInv, StackInv
<1>3. \A q \in Requests : q # r => Asked(q)' = Asked(q)
      BY <1>1 DEF Asked
<1>4. \A q \in Requests : Len(Subnets(Asked(q))) \in Nat /\ Len(Subnets(Asked(q)))' \in Nat
      BY DEF Subnets
<1>5. CASE \E t \in NodeTypes : Ask(r, t)
  <2>1. PICK t \in NodeTypes : Ask(r, t)
        BY <1>5
  <2>2. /\ phase = "up" /\ request[r] = "idle" /\ got[r] = <<>>
        /\ typeOf'[r] = t /\ config'[r] = Parse(types[t])
        /\ request'[r] = IF Parse(types[t])["priority_subnet_tag"] # None
                           THEN "priority" ELSE "main"
        /\ typeOf' \in [Requests -> NodeTypes]
        /\ config' = [q \in Requests |-> config'[q]]
        /\ request' \in [Requests -> {"idle", "priority", "main", "done", "refused", "error"}]
        BY <2>1 DEF Ask, ConfigInv, RequestInv, RequestOK
  <2>3. Asked(r)' = config'[r]
        BY <1>1, <2>2 DEF Asked
  <2>4. /\ got'[r] = <<>> /\ Len(got'[r]) = 0
        /\ Asked(r)'["priority_subnet_tag"] = None => Len(Subnets(Asked(r)))' = 1
        BY <1>1, <2>2 DEF Subnets
  <2>5. ASSUME NEW q \in Requests, q # r
        PROVE  RequestOK(q)'
    <3>1. /\ request'[q] = request[q] /\ config'[q] = config[q] /\ got'[q] = got[q]
          /\ Asked(q)' = Asked(q) /\ phase' = phase
          /\ \A i \in 1 .. Len(got[q]) : Got(q, i)' <=> Got(q, i)
          BY <1>1, <1>3, <2>5 DEF Got
    <3>2. RequestOK(q)
          BY DEF ConfigInv, RequestInv
    <3> QED  BY <3>1, <3>2 DEF RequestOK
  <2>6. RequestOK(r)'
        BY <1>1, <1>4, <2>2, <2>3, <2>4 DEF RequestOK, Subnets
  <2>7. RequestInv'
        BY <1>1, <2>2, <2>5, <2>6 DEF ConfigInv, RequestInv
  <2> QED  BY <1>2, <2>7 DEF ConfigInv
<1>6. CASE RegistryRefuses(r) \/ RequestErrs(r)
  <2>1. /\ UNCHANGED <<typeOf, config>> /\ Asking(r)
        /\ request'[r] \in {"refused", "error"}
        /\ request' \in [Requests -> {"idle", "priority", "main", "done", "refused", "error"}]
        /\ request'[r] = "refused" => ImageGiven(config[r])
        BY <1>6 DEF RegistryRefuses, RequestErrs, Fail, ConfigInv, RequestInv
  <2>2. \A q \in Requests : Asked(q)' = Asked(q) /\ \A i : Got(q, i)' <=> Got(q, i)
        BY <1>1, <2>1 DEF Asked, Got
  <2>3. request[r] # "idle"
        BY <2>1 DEF Asking
  <2>4. ASSUME NEW q \in Requests
        PROVE  RequestOK(q)'
    <3>1. RequestOK(q)
          BY DEF ConfigInv, RequestInv
    <3> QED  BY <1>1, <2>1, <2>2, <2>3, <3>1 DEF RequestOK
  <2>5. RequestInv'
        BY <1>1, <2>1, <2>4 DEF ConfigInv, RequestInv
  <2> QED  BY <1>2, <2>5 DEF ConfigInv
<1> QED  BY <1>5, <1>6

LEMMA MoreInSeq ==
    ASSUME NEW A, NEW B, A \subseteq B, NEW s \in Seq(A)
    PROVE  s \in Seq(B)
<1>1. s \in [1 .. Len(s) -> A] /\ Len(s) \in Nat
      OBVIOUS
<1>2. s \in [1 .. Len(s) -> B]
      BY <1>1
<1> QED  BY <1>1, <1>2

LEMMA LastOfFew ==
    ASSUME NEW s, NEW x, NEW y, s = <<x>> \/ s = <<y, x>>
    PROVE  Len(s) \in {1, 2} /\ s[Len(s)] = x
OBVIOUS

(* The stack that an asking request is after, its n-th, and its configuration. *)
Turn(r, c, n) ==
    /\ phase = "up" /\ todo = {} /\ IsConfig(c) /\ IsConfig(config[r])
    /\ n \in {1, 2} /\ n <= Len(Subnets(c)) /\ Subnet(r) = Subnets(c)[n]
    /\ request[r] = "priority" => n = 1 /\ Len(Subnets(c)) = 2
    /\ request[r] = "main" => n = Len(Subnets(c))
    /\ config[r] = c \/ (n = 2 /\ config[r] = WithManifest(c))

LEMMA NextStack ==
    ASSUME ConfigInv, NEW r \in Requests, Asking(r)
    PROVE  Turn(r, Asked(r), Len(got[r]) + 1)
<1> DEFINE c == Asked(r)
           n == Len(got[r]) + 1
<1> SUFFICES Turn(r, c, n)
    OBVIOUS
<1>1. /\ RequestOK(r) /\ request[r] \in {"priority", "main"} /\ typeOf[r] \in NodeTypes
      /\ got[r] \in Seq(stacks)
      BY DEF ConfigInv, RequestInv, Asking
<1>2. phase = "up" /\ todo = {}
      BY <1>1 DEF RequestOK, ConfigInv, LayersInv
<1>3. IsConfig(c)
      BY <1>1, <1>2, AskedConfig DEF ConfigInv, Asked
<1>4. /\ IsConfig(WithManifest(c))
      /\ \A k \in Keys \ {"capabilities"} : WithManifest(c)[k] = c[k]
      BY <1>3, Manifested
<1> HIDE DEF c
<1>5. config[r] = c \/ (got[r] # <<>> /\ config[r] = WithManifest(c))
      BY <1>1 DEF RequestOK, c
<1>6. config[r]["subnet_tag"] = c["subnet_tag"]
      BY <1>4, <1>5 DEF Keys, Lists, Scalars
<1>7. /\ c["priority_subnet_tag"] = None => Subnets(c) = <<c["subnet_tag"]>>
      /\ c["priority_subnet_tag"] # None =>
           Subnets(c) = <<c["priority_subnet_tag"], c["subnet_tag"]>>
      BY DEF Subnets
<1>8. CASE request[r] = "priority"
  <2>1. got[r] = <<>> /\ c["priority_subnet_tag"] # None
        BY <1>1, <1>8 DEF RequestOK, c
  <2>2. config[r] = c /\ Subnet(r) = c["priority_subnet_tag"]
        BY <1>5, <1>8, <2>1 DEF Subnet
  <2>3. n = 1 /\ Len(Subnets(c)) = 2 /\ Subnet(r) = Subnets(c)[n]
        BY <1>7, <2>1, <2>2
  <2>4. request[r] # "main" /\ n \in {1, 2} /\ n <= Len(Subnets(c)) /\ IsConfig(config[r])
        BY <1>3, <1>8, <2>2, <2>3
  <2> HIDE DEF n
  <2> QED  BY <1>2, <1>3, <2>2, <2>3, <2>4 DEF Turn
<1>9. CASE request[r] = "main"
  <2>1. Len(got[r]) = Len(Subnets(c)) - 1 /\ Subnet(r) = c["subnet_tag"]
        BY <1>1, <1>6, <1>9 DEF RequestOK, Subnet, c
  <2>2. /\ Len(Subnets(c)) \in {1, 2} /\ Subnets(c)[Len(Subnets(c))] = c["subnet_tag"]
    <3>1. \/ Subnets(c) = <<c["subnet_tag"]>>
          \/ Subnets(c) = <<c["priority_subnet_tag"], c["subnet_tag"]>>
          BY <1>7
    <3> QED  BY <3>1, LastOfFew
  <2>3. got[r] # <<>> => n = 2
        BY <1>1, <2>1, <2>2
  <2>4. n \in {1, 2} /\ n = Len(Subnets(c))
        BY <2>1, <2>2
  <2>5. Subnet(r) = Subnets(c)[n] /\ n <= Len(Subnets(c))
    <3> HIDE DEF n
    <3> QED  BY <2>1, <2>2, <2>4
  <2>6. IsConfig(config[r]) /\ (config[r] = c \/ (n = 2 /\ config[r] = WithManifest(c)))
        BY <1>3, <1>4, <1>5, <2>3
  <2> HIDE DEF n
  <2> QED  BY <1>2, <1>3, <1>9, <2>4, <2>5, <2>6 DEF Turn
<1> QED  BY <1>1, <1>8, <1>9

(* A request gets the stack of its configuration, an old one or the one it makes. *)
LEMMA StackStep ==
    ASSUME ConfigInv, NEW r \in Requests, UseStack(r) \/ MakeStack(r)
    PROVE  ConfigInv'
<1> DEFINE c == Asked(r)
           n == Len(got[r]) + 1
<1>1. Asking(r)
      BY DEF UseStack, MakeStack
<1>2. /\ phase = "up" /\ todo = {} /\ IsConfig(c) /\ IsConfig(config[r])
      /\ n \in {1, 2} /\ n <= Len(Subnets(c)) /\ Subnet(r) = Subnets(c)[n]
      /\ request[r] = "priority" => n = 1 /\ Len(Subnets(c)) = 2
      /\ request[r] = "main" => n = Len(Subnets(c))
      /\ config[r] = c \/ (n = 2 /\ config[r] = WithManifest(c))
  <2>1. Turn(r, c, n)
        BY <1>1, NextStack
  <2> QED  BY <2>1 DEF Turn
<1>3. RequestOK(r) /\ got[r] \in Seq(stacks) /\ request[r] \in {"priority", "main"}
      BY <1>1 DEF ConfigInv, RequestInv, Asking
<1>4. /\ UNCHANGED <<phase, provider, raw, types, todo, typeOf>>
      /\ stacks \subseteq stacks'
      BY DEF UseStack, MakeStack, GoOnWith, typeVars
<1>5. PICK s : /\ GoOnWith(r, s) /\ s \in stacks' /\ s.hash = Hash(r)
               /\ StackInv' /\ ImageGiven(config[r])
               /\ config' = config \/ config' = [config EXCEPT ![r] = WithManifest(@)]
  <2>1. CASE UseStack(r)
    <3>1. PICK s \in Found(r) : GoOnWith(r, s)
          BY <2>1 DEF UseStack
    <3>2. UNCHANGED <<config, stacks>> /\ StackInv'
          BY <2>1 DEF UseStack, ConfigInv, StackInv
    <3>3. s \in stacks /\ s.hash = Hash(r)
          BY <3>1 DEF Found
    <3>4. s.hash[1] = config[r]
          BY <3>3 DEF Hash
    <3>5. ImageGiven(config[r])
          BY <3>3, <3>4 DEF ConfigInv, StackInv
    <3> QED  BY <3>1, <3>2, <3>3, <3>5
  <2>2. CASE MakeStack(r)
    <3>1. /\ ImageGiven(config[r]) /\ stacks' = stacks \cup {Demand(r)}
          /\ config' = [config EXCEPT ![r] = WithManifest(@)] /\ GoOnWith(r, Demand(r))
          BY <2>2 DEF MakeStack
    <3>2. Demand(r).hash = Hash(r) /\ Demand(r) = MadeOf(Hash(r))
          BY DEF Demand, MadeOf, Hash
    <3>3. Hash(r) = <<Hash(r)[1], Hash(r)[2]>> /\ Hash(r)[1] = config[r]
          BY DEF Hash
    <3>4. StackInv'
          BY <1>2, <3>1, <3>2, <3>3 DEF ConfigInv, StackInv
    <3> QED  BY <3>1, <3>2, <3>4
  <2> QED  BY <2>1, <2>2
<1>6. /\ config' = [q \in Requests |-> config'[q]]
      /\ config'[r] = config[r] \/ config'[r] = WithManifest(config[r])
      /\ \A q \in Requests : q # r => config'[q] = config[q]
      BY <1>5 DEF ConfigInv, RequestInv
<1>7. /\ got' = [got EXCEPT ![r] = Append(@, s)]
      /\ got'[r] = Append(got[r], s) /\ \A q \in Requests : q # r => got'[q] = got[q]
      /\ request'[r] = IF request[r] = "priority" THEN "main" ELSE "done"
      /\ \A q \in Requests : q # r => request'[q] = request[q]
      /\ request' \in [Requests -> {"idle", "priority", "main", "done", "refused", "error"}]
      BY <1>5 DEF GoOnWith, ConfigInv, RequestInv
<1>8. got' \in [Requests -> Seq(stacks')]
  <2>1. \A q \in Requests : got[q] \in Seq(stacks')
        BY <1>4, MoreInSeq DEF ConfigInv, RequestInv
  <2>2. got'[r] \in Seq(stacks')
        BY <1>5, <1>7, <2>1
  <2> QED  BY <1>7, <2>1, <2>2 DEF ConfigInv, RequestInv
<1>9. LayersInv'
      BY <1>4 DEF ConfigInv, LayersInv
<1>10. \A q \in Requests : Asked(q)' = Asked(q)
       BY <1>4 DEF Asked
<1>11. ASSUME NEW q \in Requests, q # r
       PROVE  RequestOK(q)'
  <2>1. /\ request'[q] = request[q] /\ config'[q] = config[q] /\ got'[q] = got[q]
        /\ Asked(q)' = Asked(q) /\ phase' = phase
        /\ \A i : Got(q, i)' <=> Got(q, i)
        BY <1>4, <1>6, <1>7, <1>10, <1>11 DEF Got
  <2>2. RequestOK(q)
        BY DEF ConfigInv, RequestInv
  <2> QED  BY <2>1, <2>2 DEF RequestOK
<1>12. RequestOK(r)'
  <2>1. /\ Len(got'[r]) = n /\ got'[r][n] = s /\ got'[r] # <<>>
        /\ \A i \in 1 .. Len(got[r]) : got'[r][i] = got[r][i]
    <3>1. ASSUME NEW S, NEW g \in Seq(S), NEW x
          PROVE  /\ Len(Append(g, x)) = Len(g) + 1 /\ Append(g, x)[Len(g) + 1] = x
                 /\ \A i \in 1 .. Len(g) : Append(g, x)[i] = g[i]
                 /\ Append(g, x) # <<>>
          OBVIOUS
    <3> QED  BY <1>3, <1>7, <3>1
  <2>2. WithManifest(WithManifest(c)) = WithManifest(c)
        BY <1>2, Manifested
  <2>3. config'[r] = c \/ config'[r] = WithManifest(c)
        BY <1>2, <1>6, <2>2
  <2>4. ImageGiven(config'[r])
        BY <1>2, <1>5, <1>6, Manifested
  <2>5. s.hash = <<c, Subnets(c)[n]>> \/ (n = 2 /\ s.hash = <<WithManifest(c), Subnets(c)[n]>>)
        BY <1>2, <1>5 DEF Hash
  <2>6. ASSUME NEW i \in 1 .. Len(got'[r])
        PROVE  Got(r, i)'
    <3>1. i \in 1 .. Len(got[r]) \/ i = n
          BY <1>2, <1>3, <2>1
    <3>2. CASE i \in 1 .. Len(got[r])
          BY <1>3, <1>10, <2>1, <3>2 DEF RequestOK, Got
    <3>3. CASE i = n
          BY <1>10, <2>1, <2>5, <3>3 DEF Got
    <3> QED  BY <3>1, <3>2, <3>3
  <2>7. Asked(r)' = c /\ Len(Subnets(c)) \in Nat
        BY <1>10 DEF Subnets
  <2>8. /\ Subnets(Asked(r))' = Subnets(c)
        /\ request[r] = "priority" => Len(Subnets(c)) - 1 = n
        BY <1>2, <2>7 DEF Subnets
  <2>9. request'[r] = "main" \/ (request'[r] = "done" /\ request[r] = "main")
        BY <1>3, <1>7
  <2> HIDE DEF c, n
  <2> QED  BY <1>2, <1>4, <1>7, <2>1, <2>3, <2>4, <2>6, <2>7, <2>8, <2>9 DEF RequestOK
<1> QED  BY <1>5, <1>6, <1>7, <1>8, <1>9, <1>11, <1>12, <1>4 DEF ConfigInv, RequestInv

LEMMA InvStep == ConfigInv /\ [Next]_vars => ConfigInv'
<1> SUFFICES ASSUME ConfigInv, [Next]_vars PROVE ConfigInv'
    OBVIOUS
<1>1. CASE \/ \E t \in NodeTypes : ApplyDefaults(t)
           \/ DefaultsApplied \/ CheckWallet
      BY <1>1, LayersStep
<1>2. CASE \E r \in Requests : \/ \E t \in NodeTypes : Ask(r, t)
                             \/ RegistryRefuses(r) \/ RequestErrs(r)
      BY <1>2, AskStep
<1>3. CASE \E r \in Requests : UseStack(r) \/ MakeStack(r)
      BY <1>3, StackStep
<1>4. CASE UNCHANGED vars
      BY <1>4 DEF vars, typeVars, requestVars, ConfigInv, LayersInv, StackInv, RequestInv,
                  RequestOK, Got, Asked
<1> QED  BY <1>1, <1>2, <1>3, <1>4 DEF Next

LEMMA Invariant == Spec => []ConfigInv
BY InvInit, InvStep, PTL DEF Spec

-----------------------------------------------------------------------------
(* The theorems. *)

(* Every state has the types that TypeOK states; no two stacks that the cluster  *)
(* keeps in _manager_stacks have one hash.                                      *)
THEOREM TypeCorrect == Spec => []TypeOK
<1>1. ConfigInv => TypeOK
  <2> SUFFICES ASSUME ConfigInv PROVE TypeOK
      OBVIOUS
  <2>1. \A s, t \in stacks : s.hash = t.hash => s = t
        BY DEF ConfigInv, StackInv
  <2>2. ASSUME NEW r \in Requests
        PROVE  Len(got[r]) <= 2
    <3>1. Len(got[r]) \in Nat /\ Len(got[r]) <= Len(Subnets(Asked(r)))
          BY DEF ConfigInv, RequestInv, RequestOK
    <3>2. Len(Subnets(Asked(r))) = 1 \/ Len(Subnets(Asked(r))) = 2
          BY DEF Subnets
    <3>3. CASE Len(Subnets(Asked(r))) = 1
          BY <3>1, <3>3
    <3>4. CASE Len(Subnets(Asked(r))) = 2
          BY <3>1, <3>4
    <3> QED  BY <3>2, <3>3, <3>4
  <2>3. DOMAIN types = NodeTypes
        BY DEF ConfigInv, LayersInv
  <2> QED  BY <2>1, <2>2, <2>3 DEF ConfigInv, LayersInv, RequestInv, TypeOK
<1> QED  BY Invariant, <1>1, PTL

(* _apply_config_defaults gives every node type its own layer over the          *)
(* provider's over the defaults, in whatever order it goes through the types.   *)
THEOREM TypesIndependent == Spec => []TypesAreIndependent
<1>1. ConfigInv => TypesAreIndependent
  <2> SUFFICES ASSUME ConfigInv, NEW t \in NodeTypes \ todo
               PROVE  /\ \A k \in Scalars :
                           LET layers == <<raw.types[t], raw.provider, Defaults(t), ProviderDefaults>>
                               named  == {i \in 1 .. 4 : k \in DOMAIN layers[i]}
                           IN  IF named = {}
                                 THEN k \notin DOMAIN types[t]
                                 ELSE \E i \in named : /\ \A j \in named : i <= j
                                                       /\ types[t][k] = layers[i][k]
                      /\ \A k \in Lists \cap DOMAIN types[t] :
                           LET own(l) == IF k \in DOMAIN l THEN Len(l[k]) ELSE 0
                           IN  Len(types[t][k]) = own(raw.provider) + own(raw.types[t])
      BY DEF TypesAreIndependent
  <2> DEFINE o == raw.types[t]
             p == raw.provider
             d == Defaults(t)
             z == ProviderDefaults
             zp == Merge(z, p)
             dzp == Merge(d, zp)
  <2>1. IsLayer(o) /\ IsLayer(p) /\ IsLayer(d) /\ IsLayer(z)
        BY ConfigurationAssumption, DefaultLayers DEF ConfigInv, LayersInv
  <2>2. /\ DOMAIN z \cap Lists = {} /\ DOMAIN d \cap Lists = {}
        BY DefaultLayers DEF Lists
  <2>3. types[t] = Merge(dzp, o)
        BY DEF ConfigInv, LayersInv
  <2> HIDE DEF o, p, d, z
  <2>4. MergeOf(zp, z, p)
        BY <2>1, MergeLayers
  <2> HIDE DEF zp
  <2>5. MergeOf(dzp, d, zp)
    <3>1. IsLayer(zp)
          BY <2>4 DEF MergeOf
    <3> QED  BY <2>1, <3>1, MergeLayers
  <2> HIDE DEF dzp
  <2>6. MergeOf(types[t], dzp, o)
    <3>1. IsLayer(dzp)
          BY <2>5 DEF MergeOf
    <3> QED  BY <2>1, <2>3, <3>1, MergeLayers
  <2>7. ASSUME NEW k \in Scalars
        PROVE  LET layers == <<o, p, d, z>>
                   named  == {i \in 1 .. 4 : k \in DOMAIN layers[i]}
               IN  IF named = {}
                     THEN k \notin DOMAIN types[t]
                     ELSE \E i \in named : /\ \A j \in named : i <= j
                                           /\ types[t][k] = layers[i][k]
    <3> DEFINE layers == <<o, p, d, z>>
               named  == {i \in 1 .. 4 : k \in DOMAIN layers[i]}
    <3>1. /\ 1 \in named <=> k \in DOMAIN o
          /\ 2 \in named <=> k \in DOMAIN p
          /\ 3 \in named <=> k \in DOMAIN d
          /\ 4 \in named <=> k \in DOMAIN z
          /\ layers[1] = o /\ layers[2] = p /\ layers[3] = d /\ layers[4] = z
          OBVIOUS
    <3>2. /\ named \subseteq 1 .. 4
          /\ named # {} => 1 \in named \/ 2 \in named \/ 3 \in named \/ 4 \in named
          OBVIOUS
    <3>3. k \in DOMAIN types[t] <=>
            k \in DOMAIN o \/ k \in DOMAIN p \/ k \in DOMAIN d \/ k \in DOMAIN z
          BY <2>4, <2>5, <2>6 DEF MergeOf
    <3> HIDE DEF named, layers
    <3>4. CASE 1 \in named
      <4>1. types[t][k] = layers[1][k]
            BY <2>6, <3>1, <3>4 DEF MergeOf
      <4>2. \A j \in named : 1 <= j
            BY <3>2
      <4> QED  BY <3>4, <4>1, <4>2 DEF named, layers
    <3>5. CASE 1 \notin named /\ 2 \in named
      <4>1. types[t][k] = layers[2][k]
            BY <2>4, <2>5, <2>6, <3>1, <3>5 DEF MergeOf
      <4>2. \A j \in named : 2 <= j
            BY <3>2, <3>5
      <4> QED  BY <3>5, <4>1, <4>2 DEF named, layers
    <3>6. CASE 1 \notin named /\ 2 \notin named /\ 3 \in named /\ k \notin DOMAIN z
      <4>1. types[t][k] = layers[3][k]
            BY <2>4, <2>5, <2>6, <3>1, <3>6 DEF MergeOf
      <4>2. \A j \in named : 3 <= j
            BY <3>2, <3>6
      <4> QED  BY <3>6, <4>1, <4>2 DEF named, layers
    <3>7. CASE 1 \notin named /\ 2 \notin named /\ 3 \notin named /\ 4 \in named
      <4>1. types[t][k] = layers[4][k]
            BY <2>4, <2>5, <2>6, <3>1, <3>7 DEF MergeOf
      <4>2. \A j \in named : 4 <= j
            BY <3>2, <3>7
      <4> QED  BY <3>7, <4>1, <4>2 DEF named, layers
    <3>8. ~(3 \in named /\ k \in DOMAIN z)
      <4>1. DOMAIN z = {"subnet_tag"} /\ DOMAIN d \subseteq {"priority_subnet_tag"}
            BY DefaultLayers DEF d, z
      <4> QED  BY <3>1, <4>1
    <3>9. CASE named = {}
      <4>1. k \notin DOMAIN types[t]
            BY <3>1, <3>3, <3>9
      <4> QED  BY <3>9, <4>1 DEF named, layers
    <3> QED  BY <3>1, <3>2, <3>4, <3>5, <3>6, <3>7, <3>8, <3>9
  <2>8. ASSUME NEW k \in Lists \cap DOMAIN types[t]
        PROVE  LET own(l) == IF k \in DOMAIN l THEN Len(l[k]) ELSE 0
               IN  Len(types[t][k]) = own(p) + own(o)
    <3>1. /\ k \in DOMAIN p => p[k] \in Seq(STRING)
          /\ k \in DOMAIN o => o[k] \in Seq(STRING)
          BY <2>1 DEF IsLayer
    <3>2. /\ k \in DOMAIN dzp <=> k \in DOMAIN p
          /\ k \in DOMAIN p => dzp[k] = p[k]
          BY <2>2, <2>4, <2>5 DEF MergeOf
    <3>3. /\ k \in DOMAIN p \/ k \in DOMAIN o
          /\ k \in DOMAIN p /\ k \notin DOMAIN o => types[t][k] = p[k]
          /\ k \in DOMAIN o /\ k \notin DOMAIN p => types[t][k] = o[k]
          /\ k \in DOMAIN p /\ k \in DOMAIN o => types[t][k] = p[k] \o o[k]
          BY <2>6, <3>2 DEF MergeOf
    <3>4. CASE k \in DOMAIN p /\ k \in DOMAIN o
      <4>1. Len(p[k] \o o[k]) = Len(p[k]) + Len(o[k])
            BY <3>1, <3>4
      <4> QED  BY <3>3, <3>4, <4>1
    <3>5. CASE k \in DOMAIN p /\ k \notin DOMAIN o
      <4>1. Len(p[k]) \in Nat
            BY <3>1, <3>5
      <4> QED  BY <3>3, <3>5, <4>1
    <3>6. CASE k \notin DOMAIN p /\ k \in DOMAIN o
      <4>1. Len(o[k]) \in Nat
            BY <3>1, <3>6
      <4> QED  BY <3>3, <3>6, <4>1
    <3> QED  BY <3>3, <3>4, <3>5, <3>6
  <2> QED  BY <2>7, <2>8 DEF o, p, d, z
<1> QED  BY Invariant, <1>1, PTL

(* Each stack of a request was made of its node type's configuration, as parsed  *)
(* or with manifest-support added, in the subnet whose turn it was.             *)
LEMMA StackOf ==
    ASSUME ConfigInv, NEW r \in Requests, NEW i \in DOMAIN got[r]
    PROVE  /\ IsConfig(Asked(r)) /\ i \in 1 .. Len(Subnets(Asked(r)))
           /\ \E x : /\ x = Asked(r) \/ (i = 2 /\ x = WithManifest(Asked(r)))
                    /\ got[r][i] = MadeOf(<<x, Subnets(Asked(r))[i]>>)
<1>1. /\ RequestOK(r) /\ got[r] \in Seq(stacks) /\ typeOf[r] \in NodeTypes
      BY DEF ConfigInv, RequestInv
<1>2. /\ i \in 1 .. Len(got[r]) /\ Len(got[r]) \in Nat /\ got[r][i] \in stacks /\ got[r] # <<>>
      BY <1>1
<1>3. request[r] # "idle" /\ todo = {}
      BY <1>1, <1>2 DEF RequestOK, ConfigInv, LayersInv
<1>4. IsConfig(Asked(r))
      BY <1>1, <1>3, AskedConfig DEF ConfigInv, Asked
<1>5. got[r][i] = MadeOf(got[r][i].hash)
      BY <1>2 DEF ConfigInv, StackInv
<1>6. i \in 1 .. Len(Subnets(Asked(r)))
  <2>1. Len(Subnets(Asked(r))) \in {1, 2}
        BY DEF Subnets
  <2> QED  BY <1>1, <1>2, <2>1 DEF RequestOK
<1>7. Got(r, i)
      BY <1>1, <1>2 DEF RequestOK
<1> QED  BY <1>4, <1>5, <1>6, <1>7 DEF Got

(* The stacks of a node, whichever request had them created, ask the market for  *)
(* what its node type says.                                                     *)
THEOREM DemandsRight == Spec => []NodesGetTheirDemand
<1>1. ConfigInv => NodesGetTheirDemand
  <2> SUFFICES ASSUME ConfigInv, NEW r \in Requests, request[r] = "done"
               PROVE  LET c == Asked(r) IN
                      /\ Len(got[r]) = Len(Subnets(c))
                      /\ \A i \in DOMAIN got[r] :
                           /\ got[r][i].subnet = Subnets(c)[i]
                           /\ got[r][i].image = ImageOf(c)
                           /\ got[r][i].urls = c["outbound_urls"]
                           /\ (c["outbound_urls"] # <<>>) =>
                                \E j \in DOMAIN got[r][i].capabilities :
                                    got[r][i].capabilities[j] = "manifest-support"
      BY DEF NodesGetTheirDemand, Asked, Subnets
  <2> DEFINE c == Asked(r)
  <2>1. Len(got[r]) = Len(Subnets(c))
        BY DEF ConfigInv, RequestInv, RequestOK
  <2>2. ASSUME NEW i \in DOMAIN got[r]
        PROVE  /\ got[r][i].subnet = Subnets(c)[i]
               /\ got[r][i].image = ImageOf(c)
               /\ got[r][i].urls = c["outbound_urls"]
               /\ (c["outbound_urls"] # <<>>) =>
                    \E j \in DOMAIN got[r][i].capabilities :
                        got[r][i].capabilities[j] = "manifest-support"
    <3>1. IsConfig(c)
          BY StackOf
    <3>2. PICK x : /\ x = c \/ x = WithManifest(c)
                   /\ got[r][i] = MadeOf(<<x, Subnets(c)[i]>>)
          BY StackOf
    <3> HIDE DEF c
    <3>3. /\ WithManifest(x) = WithManifest(c) /\ ImageOf(x) = ImageOf(c)
          /\ x["outbound_urls"] = c["outbound_urls"]
      <4>1. "outbound_urls" \in Keys \ {"capabilities"}
            BY DEF Keys, Lists
      <4> QED  BY <3>1, <3>2, <4>1, Manifested
    <3>4. (c["outbound_urls"] # <<>>) => SupportsManifest(WithManifest(c))
          BY <3>1, Manifested
    <3>5. /\ got[r][i].subnet = Subnets(c)[i] /\ got[r][i].image = ImageOf(x)
          /\ got[r][i].urls = x["outbound_urls"]
          /\ got[r][i].capabilities = WithManifest(x)["capabilities"]
          BY <3>2 DEF MadeOf
    <3> QED  BY <3>3, <3>4, <3>5 DEF SupportsManifest
  <2> QED  BY <2>1, <2>2
<1> QED  BY Invariant, <1>1, PTL

(* Nodes of one configuration share their stacks: only a main stack made after   *)
(* manifest-support was added to the configuration may be another one.          *)
THEOREM StacksShared == Spec => []OneStackPerConfig
<1>1. ConfigInv => OneStackPerConfig
  <2> SUFFICES ASSUME ConfigInv, NEW q \in Requests, NEW r \in Requests, Asked(q) = Asked(r),
                      NEW i \in DOMAIN got[q] \cap DOMAIN got[r],
                      ~(i = 2 /\ Asked(r)["outbound_urls"] # <<>> /\ ~SupportsManifest(Asked(r)))
               PROVE  got[q][i] = got[r][i]
      BY DEF OneStackPerConfig, Asked
  <2> DEFINE c == Asked(r)
  <2>1. IsConfig(c)
        BY StackOf
  <2>2. i = 2 => WithManifest(c) = c
        BY <2>1, Manifested
  <2>3. got[r][i] = MadeOf(<<c, Subnets(c)[i]>>)
    <3>1. PICK x : /\ x = c \/ (i = 2 /\ x = WithManifest(c))
                   /\ got[r][i] = MadeOf(<<x, Subnets(c)[i]>>)
          BY StackOf
    <3> QED  BY <2>2, <3>1
  <2>4. got[q][i] = MadeOf(<<c, Subnets(c)[i]>>)
    <3>1. PICK x : /\ x = Asked(q) \/ (i = 2 /\ x = WithManifest(Asked(q)))
                   /\ got[q][i] = MadeOf(<<x, Subnets(Asked(q))[i]>>)
          BY StackOf
    <3> QED  BY <2>2, <3>1
  <2> QED  BY <2>3, <2>4
<1> QED  BY Invariant, <1>1, PTL

(* Of a configuration with both an image_tag and an image_hash, or neither, no   *)
(* stack is made and the registry is not asked.                                 *)
THEOREM NoStackOfBadImage == Spec => []BadImageMakesNoStack
<1>1. ConfigInv => BadImageMakesNoStack
      BY DEF ConfigInv, RequestInv, RequestOK, BadImageMakesNoStack, ImageGiven
<1> QED  BY Invariant, <1>1, PTL
=============================================================================

-------------------------- MODULE ReceiptTrustProofs --------------------------
(***************************************************************************)
(* What ReceiptTrust says of keys, for every set of names and key pairs    *)
(* and every number of edits the host makes while a verifier is built.     *)
(***************************************************************************)
EXTENDS ReceiptTrust, TLAPS

(* The array holds JWKs that have stood in it.                             *)
ShownInv ==
    /\ shown \in Seq(Jwks) /\ Range(shown) \subseteq ever
    /\ edits \in Nat
    /\ service \in Keys

(* The key being imported was read whole from the array.                   *)
BuildInv ==
    /\ build.at = "importing" =>
        /\ build.index \in Nat \ {0} /\ build.pending \in Keys \cap ever
    /\ KeysAreWhole

(* While the host leaves its array alone, the keys before the one being    *)
(* imported are trusted, and in the end all are.                           *)
AloneInv ==
    edits = 0 =>
        /\ build.at = "importing" =>
            /\ build.index <= Len(shown) /\ build.pending = shown[build.index]
            /\ \A i \in 1 .. build.index - 1 : Trusts(shown[i])
        /\ ShownKeysAreTrusted

TInv == ShownInv /\ BuildInv /\ AloneInv /\ AcceptedWereShown

-----------------------------------------------------------------------------
LEMMA PartsOfJwks == Keys \subseteq Jwks /\ Choices \subseteq Jwks
  BY DEF Keys, Choices, Jwks, Kids

(* A look at the array finds its end, or a JWK that has stood in it.       *)
LEMMA Looking ==
    ASSUME ShownInv, NEW i \in Nat \ {0}, NEW keys, LookAt(i, keys),
           \A k \in DOMAIN keys : [kid |-> k, pair |-> keys[k]] \in ever, UNCHANGED ever
    PROVE  BuildInv'
  <1>1. /\ build'.keys = keys
        /\ build'.at = "importing" =>
              /\ i <= Len(shown) /\ build'.index = i
              /\ build'.pending = shown[i] /\ shown[i].pair # Unusable
    BY DEF LookAt
  <1>2. i <= Len(shown) /\ shown[i].pair # Unusable => shown[i] \in Keys \cap ever
    <2> SUFFICES ASSUME i <= Len(shown), shown[i].pair # Unusable
                 PROVE  shown[i] \in Keys \cap ever
      OBVIOUS
    <2>1. i \in DOMAIN shown /\ shown[i] \in Jwks
      BY DEF ShownInv
    <2> QED BY <2>1 DEF ShownInv, Range, Jwks, Keys
  <1> QED BY <1>1, <1>2 DEF BuildInv, KeysAreWhole

LEMMA LookingAlone ==
    ASSUME ShownInv, NEW i \in Nat \ {0}, NEW keys, LookAt(i, keys),
           \A j \in 1 .. i - 1 : j \in 1 .. Len(shown) =>
                shown[j].kid \in DOMAIN keys /\ keys[shown[j].kid] = shown[j].pair,
           UNCHANGED <<shown, edits>>
    PROVE  AloneInv'
  <1>1. /\ build'.keys = keys
        /\ build'.at = "importing" =>
              i <= Len(shown) /\ build'.index = i /\ build'.pending = shown[i]
        /\ build'.at = "ready" => i > Len(shown)
    BY DEF LookAt
  <1>2. Len(shown) \in Nat /\ DOMAIN shown = 1 .. Len(shown)
    BY DEF ShownInv
  <1> QED BY <1>1, <1>2 DEF AloneInv, ShownKeysAreTrusted, Trusts

(* A verifier that is refused has no keys.                                 *)
LEMMA Refusing ==
    ASSUME Refuse
    PROVE  BuildInv' /\ AloneInv'
  <1>1. build'.at = "refused" /\ build'.keys = <<>>
    BY DEF Refuse, NoBuild
  <1> QED BY <1>1 DEF BuildInv, AloneInv, KeysAreWhole, ShownKeysAreTrusted

-----------------------------------------------------------------------------
LEMMA TInvInitially == Init => TInv
  <1> SUFFICES ASSUME Init PROVE TInv
    OBVIOUS
  <1>1. build.at = "none" /\ build.keys = <<>>
    BY DEF Init, NoBuild
  <1>2. shown \in Seq(Jwks) /\ edits \in Nat
    <2>1. \E n \in 1 .. MaxKeys : shown \in [1 .. n -> Jwks]
      BY PartsOfJwks DEF Init
    <2> QED BY <2>1, BoundAssumption DEF Init
  <1> QED BY <1>1, <1>2
          DEF Init, TInv, ShownInv, BuildInv, AloneInv, KeysAreWhole, ShownKeysAreTrusted,
              AcceptedWereShown

LEMMA TInvKept == TInv /\ [Next]_vars => TInv'
  <1> SUFFICES ASSUME TInv, [Next]_vars PROVE TInv'
    OBVIOUS
  <1> USE DEF TInv
  <1>1. CASE HostEdits
    <2>1. PICK new \in Seq(Jwks) : Edit(new)
      <3>1. Choices \cup {service} \subseteq Jwks /\ shown \in Seq(Jwks)
        BY PartsOfJwks DEF ShownInv
      <3>2. CASE \E i \in DOMAIN shown, jwk \in Choices \cup {service} :
                    Edit([shown EXCEPT ![i] = jwk])
        <4>1. PICK i \in DOMAIN shown, jwk \in Choices \cup {service} :
                    Edit([shown EXCEPT ![i] = jwk])
          BY <3>2
        <4>2. [shown EXCEPT ![i] = jwk] \in Seq(Jwks)
          BY <3>1
        <4> QED BY <4>1, <4>2
      <3>3. CASE \E jwk \in Choices \cup {service} :
                    Len(shown) < MaxKeys /\ Edit(Append(shown, jwk))
        <4>1. PICK jwk \in Choices \cup {service} : Edit(Append(shown, jwk))
          BY <3>3
        <4>2. Append(shown, jwk) \in Seq(Jwks)
          BY <3>1
        <4> QED BY <4>1, <4>2
      <3>4. CASE Len(shown) > 1 /\ Edit(Tail(shown))
        <4>1. Tail(shown) \in Seq(Jwks)
          BY <3>1, <3>4
        <4> QED BY <3>4, <4>1
      <3> QED BY <1>1, <3>2, <3>3, <3>4 DEF HostEdits
    <2>2. /\ shown' = new /\ ever' = ever \cup Range(new) /\ edits' = edits + 1
          /\ UNCHANGED <<build, service, configured, accepted>>
      BY <2>1 DEF Edit
    <2>3. ShownInv'
      BY <2>2 DEF ShownInv
    <2>4. BuildInv' /\ AcceptedWereShown'
      BY <2>2 DEF BuildInv, KeysAreWhole, AcceptedWereShown
    <2>5. AloneInv'
      BY <2>2 DEF AloneInv, ShownInv
    <2> QED BY <2>3, <2>4, <2>5
  <1>2. CASE CreateVerifier
    <2>1. LookAt(1, <<>>) /\ UNCHANGED <<shown, ever, edits, service, configured, accepted>>
      BY <1>2 DEF CreateVerifier, BuildUnchanged
    <2>2. BuildInv'
      BY <2>1, Looking
    <2>3. AloneInv'
      BY <2>1, LookingAlone
    <2> QED BY <2>1, <2>2, <2>3 DEF ShownInv, AcceptedWereShown
  <1>3. CASE Import
    <2> DEFINE key == build.pending
               keys == [k \in DOMAIN build.keys \cup {key.kid} |->
                           IF k = key.kid THEN key.pair ELSE build.keys[k]]
    <2>1. UNCHANGED <<shown, ever, edits, service, configured, accepted>>
      BY <1>3 DEF Import, BuildUnchanged
    <2>2. CASE Refuse
      BY <2>1, <2>2, Refusing DEF ShownInv, AcceptedWereShown
    <2>3. CASE ~Refuse
      <3>1. /\ key.kid \notin DOMAIN build.keys /\ build.at = "importing"
            /\ LookAt(build.index + 1, keys)
        BY <1>3, <2>3 DEF Import
      <3>2. build.index + 1 \in Nat \ {0} /\ key \in Keys \cap ever
        BY <3>1 DEF BuildInv
      <3>3. key = [kid |-> key.kid, pair |-> key.pair]
        BY <3>2 DEF Keys
      <3>4. \A k \in DOMAIN keys : [kid |-> k, pair |-> keys[k]] \in ever
        BY <3>2, <3>3 DEF BuildInv, KeysAreWhole
      <3>5. edits = 0 => \A j \in 1 .. build.index : j \in 1 .. Len(shown) =>
                    shown[j].kid \in DOMAIN keys /\ keys[shown[j].kid] = shown[j].pair
        <4> SUFFICES ASSUME edits = 0, NEW j \in 1 .. build.index, j \in 1 .. Len(shown)
                     PROVE  shown[j].kid \in DOMAIN keys /\ keys[shown[j].kid] = shown[j].pair
          OBVIOUS
        <4>1. CASE j = build.index
          BY <3>1, <4>1 DEF AloneInv
        <4>2. CASE j # build.index
          <5>1. j \in 1 .. build.index - 1
            BY <3>1, <4>2 DEF BuildInv
          <5> QED BY <3>1, <5>1 DEF AloneInv, Trusts
        <4> QED BY <4>1, <4>2
      <3> HIDE DEF keys
      <3>6. BuildInv'
        BY <2>1, <3>1, <3>2, <3>4, Looking
      <3>7. AloneInv'
        <4>1. CASE edits = 0
          <5>1. (build.index + 1) - 1 = build.index
            BY <3>1 DEF BuildInv
          <5> QED BY <2>1, <3>1, <3>2, <3>5, <4>1, <5>1, LookingAlone
        <4>2. CASE edits # 0
          BY <2>1, <4>2 DEF AloneInv
        <4> QED BY <4>1, <4>2
      <3> QED BY <2>1, <3>6, <3>7 DEF ShownInv, AcceptedWereShown
    <2> QED BY <2>2, <2>3
  <1>4. CASE ImportFails
    <2>1. /\ UNCHANGED <<shown, ever, edits, service, configured, accepted>>
          /\ BuildInv' /\ AloneInv'
      BY <1>4, Refusing DEF ImportFails, BuildUnchanged
    <2> QED BY <2>1 DEF ShownInv, AcceptedWereShown
  <1>5. ASSUME NEW key \in Keys, NEW fit \in BOOLEAN, Verify(key, fit) PROVE TInv'
    <2>1. UNCHANGED <<shown, ever, edits, build, service, configured>>
      BY <1>5 DEF Verify
    <2>2. Trusts(key) => key \in ever
      <3>1. key = [kid |-> key.kid, pair |-> key.pair]
        BY DEF Keys
      <3> QED BY <3>1 DEF Trusts, BuildInv, KeysAreWhole
    <2>3. AcceptedWereShown'
      <3>1. accepted' \in {accepted, accepted \cup {key}} /\ (accepted' = accepted \/ Trusts(key))
        BY <1>5 DEF Verify
      <3> QED BY <2>1, <2>2, <3>1 DEF AcceptedWereShown
    <2>4. ShownInv'
      BY <2>1 DEF ShownInv
    <2>5. (BuildInv /\ AloneInv)'
      BY <2>1 DEF BuildInv, KeysAreWhole, AloneInv, ShownKeysAreTrusted, Trusts
    <2> QED BY <2>3, <2>4, <2>5
  <1>6. CASE ServiceRestarts
    <2>1. UNCHANGED <<shown, ever, edits, build, accepted>> /\ service' \in Keys
      BY <1>6 DEF ServiceRestarts
    <2> QED BY <2>1 DEF ShownInv, BuildInv, KeysAreWhole, AloneInv, ShownKeysAreTrusted,
            Trusts, AcceptedWereShown
  <1>7. CASE UNCHANGED vars
    BY <1>7 DEF vars, ShownInv, BuildInv, KeysAreWhole, AloneInv,
       ShownKeysAreTrusted, Trusts, AcceptedWereShown
  <1> QED BY <1>1, <1>2, <1>3, <1>4, <1>5, <1>6, <1>7 DEF Next

(* The invariant holds in every reachable state.                           *)
THEOREM Invariance == Spec => []TInv
  BY TInvInitially, TInvKept, PTL DEF Spec

-----------------------------------------------------------------------------
(* No verifier joins the kid of one JWK with the key of another, however   *)
(* the host's array changes while it is built.                             *)
THEOREM KeysWhole == Spec => []KeysAreWhole
  <1>1. TInv => KeysAreWhole
    BY DEF TInv, BuildInv
  <1> QED BY <1>1, Invariance, PTL

(* An array left alone is trusted key by key.                              *)
THEOREM ShownTrusted == Spec => []ShownKeysAreTrusted
  <1>1. TInv => ShownKeysAreTrusted
    BY DEF TInv, AloneInv, ShownKeysAreTrusted
  <1> QED BY <1>1, Invariance, PTL

(* What a verifier accepted was signed by a key it was shown.              *)
THEOREM AcceptedShown == Spec => []AcceptedWereShown
  <1>1. TInv => AcceptedWereShown
    BY DEF TInv
  <1> QED BY <1>1, Invariance, PTL

-----------------------------------------------------------------------------
(* A look at the array leaves a verifier of the right type.                *)
BuildTypes ==
    /\ build.at \in {"none", "importing", "ready", "refused"}
    /\ build.index \in 0 .. MaxKeys
    /\ build.pending \in Keys \cup {Nothing}
    /\ DOMAIN build.keys \subseteq Kids /\ Range(build.keys) \subseteq Pairs

LEMMA LookingTypes ==
    ASSUME shown \in Seq(Jwks), Len(shown) <= MaxKeys, NEW i \in Nat \ {0}, NEW keys,
           DOMAIN keys \subseteq Kids, Range(keys) \subseteq Pairs, LookAt(i, keys)
    PROVE  BuildTypes'
  <1>1. i <= Len(shown) => i \in DOMAIN shown /\ shown[i] \in Jwks /\ i \in 0 .. MaxKeys
    BY BoundAssumption
  <1>2. i <= Len(shown) /\ shown[i].pair # Unusable => shown[i] \in Keys
    BY <1>1 DEF Jwks, Keys
  <1>3. /\ build'.keys = keys /\ build'.at \in {"importing", "ready", "refused"}
        /\ build'.index = IF i <= Len(shown) THEN i ELSE 0
        /\ build'.pending = IF i <= Len(shown) /\ shown[i].pair # Unusable
                            THEN shown[i] ELSE Nothing
    BY DEF LookAt
  <1>4. build'.index \in 0 .. MaxKeys
    BY <1>1, <1>3, BoundAssumption
  <1>5. build'.pending \in Keys \cup {Nothing}
    BY <1>2, <1>3
  <1>6. DOMAIN build'.keys \subseteq Kids /\ Range(build'.keys) \subseteq Pairs
    BY <1>3
  <1> QED BY <1>3, <1>4, <1>5, <1>6 DEF BuildTypes

LEMMA EmptyTypes == DOMAIN <<>> \subseteq Kids /\ Range(<<>>) \subseteq Pairs
  BY DEF Range

LEMMA RefusingTypes ==
    ASSUME Refuse
    PROVE  BuildTypes'
  <1>1. /\ build'.at = "refused" /\ build'.index = 0 /\ build'.pending = Nothing
        /\ build'.keys = <<>>
    BY DEF Refuse, NoBuild
  <1> QED BY <1>1, EmptyTypes, BoundAssumption DEF BuildTypes

LEMMA TypesInitially == Init => TypeOK
  <1> SUFFICES ASSUME Init PROVE TypeOK
    OBVIOUS
  <1>1. shown \in Seq(Jwks) /\ Len(shown) <= MaxKeys /\ ever \subseteq Jwks
    <2>1. PICK n \in 1 .. MaxKeys : shown \in [1 .. n -> Jwks]
      BY PartsOfJwks DEF Init
    <2>2. n \in Nat /\ n <= MaxKeys
      BY BoundAssumption
    <2>3. shown \in Seq(Jwks) /\ Len(shown) = n
      BY <2>1, <2>2
    <2> QED BY <2>2, <2>3 DEF Init, Range
  <1>2. BuildTypes
    BY EmptyTypes, BoundAssumption DEF Init, NoBuild, BuildTypes
  <1>3. /\ service \in Keys /\ service.pair \in Pairs /\ edits \in 0 .. MaxEdits
        /\ configured = Nothing \/ configured.pair \in Pairs
    BY BoundAssumption DEF Init, Keys
  <1> QED BY <1>1, <1>2, <1>3 DEF Init, TypeOK, BuildTypes

LEMMA TypesKept == TInv /\ TypeOK /\ [Next]_vars => TypeOK'
  <1> SUFFICES ASSUME TInv, TypeOK, [Next]_vars PROVE TypeOK'
    OBVIOUS
  <1>0. BuildTypes /\ service \in Keys
    BY DEF TypeOK, BuildTypes
  <1>1. CASE HostEdits
    <2>1. Choices \cup {service} \subseteq Jwks /\ shown \in Seq(Jwks) /\ Len(shown) <= MaxKeys
      BY <1>0, PartsOfJwks DEF TypeOK
    <2>2. PICK new \in Seq(Jwks) : Len(new) <= MaxKeys /\ Edit(new)
      <3>1. CASE \E i \in DOMAIN shown, jwk \in Choices \cup {service} :
                    Edit([shown EXCEPT ![i] = jwk])
        <4>1. PICK i \in DOMAIN shown, jwk \in Choices \cup {service} :
                    Edit([shown EXCEPT ![i] = jwk])
          BY <3>1
        <4>2. [shown EXCEPT ![i] = jwk] \in Seq(Jwks) /\ Len([shown EXCEPT ![i] = jwk]) = Len(shown)
          BY <2>1
        <4> QED BY <2>1, <4>1, <4>2
      <3>2. CASE \E jwk \in Choices \cup {service} :
                    Len(shown) < MaxKeys /\ Edit(Append(shown, jwk))
        <4>1. PICK jwk \in Choices \cup {service} :
                    Len(shown) < MaxKeys /\ Edit(Append(shown, jwk))
          BY <3>2
        <4>2. Append(shown, jwk) \in Seq(Jwks) /\ Len(Append(shown, jwk)) = Len(shown) + 1
          BY <2>1
        <4>3. Len(Append(shown, jwk)) <= MaxKeys
          BY <2>1, <4>1, <4>2, BoundAssumption
        <4> QED BY <4>1, <4>2, <4>3
      <3>3. CASE Len(shown) > 1 /\ Edit(Tail(shown))
        <4>1. Tail(shown) \in Seq(Jwks) /\ Len(Tail(shown)) = Len(shown) - 1
          BY <2>1, <3>3
        <4>2. Len(Tail(shown)) <= MaxKeys
          BY <2>1, <4>1, BoundAssumption
        <4> QED BY <3>3, <4>1, <4>2
      <3> QED BY <1>1, <3>1, <3>2, <3>3 DEF HostEdits
    <2>3. /\ shown' = new /\ ever' = ever \cup Range(new)
          /\ edits < MaxEdits /\ edits' = edits + 1
          /\ UNCHANGED <<build, service, configured, spent, accepted>>
      BY <2>2 DEF Edit
    <2>4. edits' \in 0 .. MaxEdits
      BY <2>3, BoundAssumption DEF TypeOK
    <2>5. ever' \subseteq Jwks
      BY <2>2, <2>3 DEF TypeOK, Range
    <2> QED BY <2>2, <2>3, <2>4, <2>5 DEF TypeOK
  <1>2. ASSUME BuildTypes', BuildUnchanged PROVE TypeOK'
    BY <1>2 DEF BuildUnchanged, BuildTypes, TypeOK
  <1>3. CASE CreateVerifier
    <2>1. LookAt(1, <<>>)
      BY <1>3 DEF CreateVerifier
    <2>2. shown \in Seq(Jwks) /\ Len(shown) <= MaxKeys
      BY DEF TypeOK
    <2>3. BuildTypes'
      BY <2>1, <2>2, EmptyTypes, LookingTypes
    <2> QED BY <1>2, <1>3, <2>3 DEF CreateVerifier
  <1>4. CASE Import
    <2> DEFINE key == build.pending
               keys == [k \in DOMAIN build.keys \cup {key.kid} |->
                           IF k = key.kid THEN key.pair ELSE build.keys[k]]
    <2>1. CASE Refuse
      BY <1>2, <1>4, <2>1, RefusingTypes DEF Import
    <2>2. CASE ~Refuse
      <3>1. build.at = "importing" /\ LookAt(build.index + 1, keys)
        BY <1>4, <2>2 DEF Import
      <3>2. build.index + 1 \in Nat \ {0} /\ key.kid \in Kids /\ key.pair \in Pairs
        BY <3>1 DEF TInv, BuildInv, Keys
      <3>3. DOMAIN keys \subseteq Kids /\ Range(keys) \subseteq Pairs
        BY <1>0, <3>2 DEF BuildTypes, Range
      <3> HIDE DEF keys
      <3>4. BuildTypes'
        BY <3>1, <3>2, <3>3, LookingTypes DEF TypeOK
      <3> QED BY <1>2, <1>4, <3>4 DEF Import
    <2> QED BY <2>1, <2>2
  <1>5. CASE ImportFails
    BY <1>2, <1>5, RefusingTypes DEF ImportFails
  <1>6. ASSUME NEW key \in Keys, NEW fit \in BOOLEAN, Verify(key, fit) PROVE TypeOK'
    BY <1>6 DEF Verify, TypeOK
  <1>7. CASE ServiceRestarts
    <2>1. service' \in Keys /\ service'.pair \in Pairs
      BY <1>7 DEF ServiceRestarts, Keys
    <2> QED BY <1>7, <2>1 DEF ServiceRestarts, TypeOK
  <1>8. CASE UNCHANGED vars
    BY <1>8 DEF vars, TypeOK
  <1> QED BY <1>1, <1>3, <1>4, <1>5, <1>6, <1>7, <1>8 DEF Next

(* Every variable keeps its type: what a verifier trusts are key pairs     *)
(* under kids, and never a JWK that is none.                               *)
THEOREM TypeCorrect == Spec => []TypeOK
  BY TypesInitially, TypesKept, Invariance, PTL DEF Spec

=============================================================================

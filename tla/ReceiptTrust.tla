---------------------------- MODULE ReceiptTrust ----------------------------
(***************************************************************************)
(* Whose receipts a verifier believes.  createAccessReceiptVerifier of     *)
(* package access walks over the host's array of public JWKs, importing    *)
(* one after the other; every import is awaited, and the host may change   *)
(* the array and the JWKs in it meanwhile.  A receipt, a forgery included, *)
(* names a kid and is signed with some key pair.  One of the JWKs is the   *)
(* historical service's, whose key is configured or made anew at every     *)
(* start and published as a JWKS that hosts may copy.  A key pair is an    *)
(* opaque value and stands for its RFC 7638 thumbprint too; time windows   *)
(* are left to AccessRedemption.                                           *)
(***************************************************************************)
EXTENDS Integers, Sequences, Functions

CONSTANTS
    Names,      \* key ids that people choose
    Pairs,      \* Ed25519 key pairs
    Unusable,   \* what is no Ed25519 public value
    None,       \* no value
    MaxKeys,    \* bound: length of the host's array
    MaxEdits    \* bound: changes the host makes to it

ASSUME BoundAssumption == MaxKeys \in Nat \ {0} /\ MaxEdits \in Nat
ASSUME NameAssumption ==
    /\ Names \cap Pairs = {} /\ Unusable \notin Pairs
    /\ None \notin Names \cup Pairs \cup {Unusable}

VARIABLES
    shown,      \* config.publicKeys, as it is now
    ever,       \* the JWKs that have stood in it (ghost)
    edits,      \* how often the host changed it
    build,      \* the creation of the verifier
    service,    \* the historical service's key
    configured, \* what FIBERLATCH_RECEIPT_PRIVATE_JWK holds, or Nothing
    spent,      \* the key pairs made so far
    accepted    \* the receipts, by key, that the verifier accepted

vars == <<shown, ever, edits, build, service, configured, spent, accepted>>

-----------------------------------------------------------------------------
Kids == Names \cup Pairs
Jwks == [kid : Kids, pair : Pairs \cup {Unusable}]
Keys == [kid : Kids, pair : Pairs]
Nothing == [kid |-> None, pair |-> None]
Choices == [kid : Names, pair : Pairs \cup {Unusable}]

NoBuild == [at |-> "none", index |-> 0, pending |-> Nothing, keys |-> <<>>]

TypeOK ==
    /\ shown \in Seq(Jwks) /\ Len(shown) <= MaxKeys
    /\ ever \subseteq Jwks
    /\ edits \in 0 .. MaxEdits
    /\ build.at \in {"none", "importing", "ready", "refused"}
    /\ build.index \in 0 .. MaxKeys
    /\ build.pending \in Keys \cup {Nothing}
    /\ DOMAIN build.keys \subseteq Kids /\ Range(build.keys) \subseteq Pairs
    /\ service \in Keys
    /\ configured = Nothing \/ configured.pair \in Pairs
    /\ spent \subseteq Pairs
    /\ accepted \subseteq Keys

(* loadReceiptSigningKeyMaterial: a configured JWK without a kid, and a    *)
(* pair made anew, are named by their thumbprint.                          *)
SigningKey(key, made) ==
    IF configured = Nothing THEN key.pair \notin made /\ key.kid = key.pair
    ELSE /\ key.pair = configured.pair
         /\ key.kid = IF configured.kid = None THEN key.pair ELSE configured.kid

Init ==
    /\ \E n \in 1 .. MaxKeys : shown \in [1 .. n -> Choices]
    /\ ever = Range(shown)
    /\ edits = 0 /\ build = NoBuild
    /\ configured \in {Nothing} \cup [kid : Names \cup {None}, pair : Pairs]
    /\ service \in Keys /\ SigningKey(service, {})
    /\ spent = {service.pair}
    /\ accepted = {}

-----------------------------------------------------------------------------
(* The host changes its array in place: another JWK or another field of    *)
(* one, one more (the JWKS of the service, for one), or one fewer.         *)
Edit(new) ==
    /\ edits < MaxEdits /\ edits' = edits + 1
    /\ shown' = new /\ ever' = ever \cup Range(new)
    /\ UNCHANGED <<build, service, configured, spent, accepted>>

HostEdits ==
    \/ \E i \in DOMAIN shown, jwk \in Choices \cup {service} :
            Edit([shown EXCEPT ![i] = jwk])
    \/ \E jwk \in Choices \cup {service} :
            Len(shown) < MaxKeys /\ Edit(Append(shown, jwk))
    \/ Len(shown) > 1 /\ Edit(Tail(shown))

-----------------------------------------------------------------------------

(* The array iterator looks at the array as it is when it gets there.  The *)
(* JWK it finds is validated and copied, with its kid, before the import   *)
(* is awaited.                                                             *)
LookAt(i, keys) ==
    build' = [index |-> IF i <= Len(shown) THEN i ELSE 0,
              keys |-> keys,
              at |-> IF i > Len(shown) THEN "ready"
                     ELSE IF shown[i].pair = Unusable THEN "refused"
                     ELSE "importing",
              pending |-> IF i <= Len(shown) /\ shown[i].pair # Unusable
                          THEN shown[i] ELSE Nothing]

Refuse == build' = [NoBuild EXCEPT !.at = "refused"]

BuildUnchanged ==
    UNCHANGED <<shown, ever, edits, service, configured, spent, accepted>>

CreateVerifier ==
    /\ build.at = "none"
    /\ LookAt(1, <<>>)
    /\ BuildUnchanged

(* Mutations of Import: the kid is read when the import is done; or the    *)
(* last key under a kid counts.                                            *)
ImportUnderCurrentKid ==
    /\ build.at = "importing"
    /\ LET kid == IF build.index <= Len(shown) THEN shown[build.index].kid
                  ELSE build.pending.kid
       IN  IF kid \in DOMAIN build.keys THEN Refuse
           ELSE LookAt(build.index + 1,
                       [k \in DOMAIN build.keys \cup {kid} |->
                           IF k = kid THEN build.pending.pair ELSE build.keys[k]])
    /\ BuildUnchanged

ImportLastOfKid ==
    /\ build.at = "importing"
    /\ LET key == build.pending
       IN  LookAt(build.index + 1,
                  [k \in DOMAIN build.keys \cup {key.kid} |->
                      IF k = key.kid THEN key.pair ELSE build.keys[k]])
    /\ BuildUnchanged

(* The import completes: a second key under one kid is refused.            *)
Import ==
    /\ build.at = "importing"
    /\ LET key == build.pending
       IN  IF key.kid \in DOMAIN build.keys THEN Refuse
           ELSE LookAt(build.index + 1,
                       [k \in DOMAIN build.keys \cup {key.kid} |->
                           IF k = key.kid THEN key.pair ELSE build.keys[k]])
    /\ BuildUnchanged

ImportFails == build.at = "importing" /\ Refuse /\ BuildUnchanged

-----------------------------------------------------------------------------
Trusts(key) ==
    key.kid \in DOMAIN build.keys /\ build.keys[key.kid] = key.pair

Verify(key, fit) ==
    /\ build.at = "ready"
    /\ accepted' = IF fit /\ Trusts(key) THEN accepted \cup {key} ELSE accepted
    /\ UNCHANGED <<shown, ever, edits, build, service, configured, spent>>

(* The service is started again, with the key it is configured with or one *)
(* made anew; a host that copied its JWKS still shows the old one.         *)
ServiceRestarts ==
    /\ service' \in Keys /\ SigningKey(service', spent)
    /\ spent' = spent \cup {service'.pair}
    /\ UNCHANGED <<shown, ever, edits, build, configured, accepted>>

Next ==
    \/ HostEdits \/ CreateVerifier \/ Import \/ ImportFails
    \/ \E key \in Keys, fit \in BOOLEAN : Verify(key, fit)
    \/ ServiceRestarts

Spec == Init /\ [][Next]_vars

-----------------------------------------------------------------------------
(* Whatever the host does to its JWKs while the verifier is being built,   *)
(* every key in it stood in the array whole: no kid of one JWK is joined   *)
(* with the key of another.                                                *)
KeysAreWhole ==
    \A k \in DOMAIN build.keys : [kid |-> k, pair |-> build.keys[k]] \in ever

(* A verifier over an array left alone trusts every key shown to it: none  *)
(* is dropped or hidden by another.                                        *)
ShownKeysAreTrusted ==
    build.at = "ready" /\ edits = 0 => \A i \in DOMAIN shown : Trusts(shown[i])

(* An accepted receipt was signed by a key that the host has shown under   *)
(* the kid the receipt names.                                              *)
AcceptedWereShown == accepted \subseteq ever

=============================================================================

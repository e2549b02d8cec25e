--------------------------- MODULE WebhookSecrets ---------------------------
(***************************************************************************)
(* The signing secrets of one owner webhook endpoint and the rotations that *)
(* replace them.  A rotation reads the stored set, computes the new one and *)
(* writes it in a second storage call, so two rotations may overlap         *)
(* (server_webhooks.rs rotate, webhooks/mod.rs rotated_secrets).            *)
(***************************************************************************)
EXTENDS Naturals, Sequences, TLAPS

CONSTANTS Secret, Request, Idle, ROTATION_OVERLAP

\* What a sealed entry says of its expiry.
Never == ROTATION_OVERLAP + 1

\* A stored set: the current secret, and at most one that expires.
StoredSecret == [secret: Secret, left: 0..Never]
SecretSet ==
    {set \in Seq(StoredSecret) :
        /\ Len(set) \in {1, 2}
        /\ set[1].left = Never
        /\ Len(set) = 2 => set[2].left # Never}

ASSUME SecretsAssumption ==
    ROTATION_OVERLAP \in Nat /\ Secret # {} /\ Idle \notin SecretSet

VARIABLES
    status,      \* of the endpoint
    secrets,     \* the stored set, current secret first
    request,     \* request[q]: the set a rotation has read, or Idle
    owed,        \* history: for how long the owner was told a secret signs
    last         \* history: the secret the latest rotation replaced, and if it raced

secretVars == <<status, secrets, request, owed, last>>

Entry(s, left) == [secret |-> s, left |-> left]
Stored == {secrets[i].secret : i \in DOMAIN secrets}

\* The new secret first, then the current one of the set that was read.
\* Mutant: the previous secret is dropped at once.
RotatedAlone(existing, s) == <<Entry(s, Never)>>
rotated_secrets(existing, s) ==
    LET previous == CHOOSE i \in DOMAIN existing :
            existing[i].left = Never /\ \A j \in 1..(i - 1) : existing[j].left # Never
    IN  <<Entry(s, Never), Entry(existing[previous].secret, ROTATION_OVERLAP)>>

signing_keys == {secrets[i].secret : i \in {j \in DOMAIN secrets : secrets[j].left > 0}}

\* A secret is random: one that no stored set, no request and no owner has.
Fresh(s) ==
    /\ s \notin Stored
    /\ owed[s] = 0
    /\ \A q \in Request : request[q] # Idle =>
           \A i \in DOMAIN request[q] : request[q][i].secret # s

ReadRotation(q) ==
    /\ status = "active"
    /\ request[q] = Idle
    /\ request' = [request EXCEPT ![q] = secrets]
    /\ UNCHANGED <<status, secrets, owed, last>>

\* The response names the new secret and tells the owner that the previous one
\* signs for ROTATION_OVERLAP more.
rotate_webhook_secrets(q, s) ==
    /\ request[q] # Idle
    /\ status = "active"
    /\ Fresh(s)
    /\ secrets' = rotated_secrets(request[q], s)
    /\ owed' = [x \in Secret |-> IF x = s THEN Never
                                 ELSE IF owed[x] = Never THEN ROTATION_OVERLAP ELSE owed[x]]
    /\ last' = [secret |-> secrets[1].secret, raced |-> request[q][1] # secrets[1]]
    /\ request' = [request EXCEPT ![q] = Idle]
    /\ UNCHANGED status

\* The endpoint was disabled meanwhile: the rotation answers 404.
RotationRefused(q) ==
    /\ request[q] # Idle
    /\ status # "active"
    /\ request' = [request EXCEPT ![q] = Idle]
    /\ UNCHANGED <<status, secrets, owed, last>>

DisabledMeanwhile ==
    /\ status = "active"
    /\ status' = "disabled"
    /\ UNCHANGED <<secrets, request, owed, last>>

Sooner(n) == IF n \in 1..ROTATION_OVERLAP THEN n - 1 ELSE n
Older(set) == [i \in DOMAIN set |-> Entry(set[i].secret, Sooner(set[i].left))]

SecretsTick ==
    /\ secrets' = Older(secrets)
    /\ request' = [q \in Request |-> IF request[q] = Idle THEN Idle ELSE Older(request[q])]
    /\ owed' = [s \in Secret |-> Sooner(owed[s])]
    /\ UNCHANGED <<status, last>>

\* The secret the endpoint was created with; which one makes no difference.
First == CHOOSE s \in Secret : TRUE

SecretsInit ==
    /\ status = "active"
    /\ secrets = <<Entry(First, Never)>>
    /\ owed = [x \in Secret |-> IF x = First THEN Never ELSE 0]
    /\ last = [secret |-> First, raced |-> FALSE]
    /\ request = [q \in Request |-> Idle]

SecretsNext ==
    \/ \E q \in Request : ReadRotation(q) \/ RotationRefused(q)
    \/ \E q \in Request, s \in Secret : rotate_webhook_secrets(q, s)
    \/ DisabledMeanwhile
    \/ SecretsTick

SecretsSpec == SecretsInit /\ [][SecretsNext]_secretVars

-----------------------------------------------------------------------------
(* Properties.                                                              *)

\* The secret a rotation replaced goes on signing for the whole overlap, unless
\* another rotation replaced the set since it was read (rotated_secrets).
PredecessorSigns ==
    ~last.raced /\ owed[last.secret] > 0 => last.secret \in signing_keys

-----------------------------------------------------------------------------
(* Proof, for any secrets, requests and overlap.                            *)

SecretsType ==
    /\ secrets \in SecretSet
    /\ request \in [Request -> SecretSet \cup {Idle}]
    /\ owed \in [Secret -> 0..Never]
    /\ last \in [secret: Secret, raced: BOOLEAN]

\* The current secret is owed without end, and the one that an undisturbed rotation
\* replaced is stored second for as long as it is owed.
SecretsInvariant ==
    /\ SecretsType
    /\ owed[secrets[1].secret] = Never
    /\ ~last.raced =>
           \/ Len(secrets) = 1 /\ last.secret = secrets[1].secret
           \/ /\ Len(secrets) = 2 /\ last.secret = secrets[2].secret
              /\ owed[last.secret] <= secrets[2].left

LEMMA SetShape ==
  ASSUME NEW set \in SecretSet
  PROVE  /\ set \in Seq(StoredSecret) /\ DOMAIN set = 1..Len(set) /\ Len(set) \in {1, 2}
         /\ Never \in Nat \ {0} /\ set[1].left = Never
         /\ Len(set) = 2 => set[2].left # Never
         /\ \A i \in 1..Len(set) : /\ set[i] \in StoredSecret /\ set[i].secret \in Secret
                                   /\ set[i].left \in 0..Never /\ set[i].left \in Nat
         /\ set[1].secret \in Secret
<1> USE SecretsAssumption
<1>1. /\ set \in Seq(StoredSecret) /\ Len(set) \in {1, 2} /\ set[1].left = Never
      /\ Len(set) = 2 => set[2].left # Never
  BY DEF SecretSet
<1>2. DOMAIN set = 1..Len(set) /\ 1 \in 1..Len(set) /\ \A i \in 1..Len(set) : set[i] \in StoredSecret
  BY <1>1
<1>3. \A e \in StoredSecret : e.secret \in Secret /\ e.left \in 0..Never /\ e.left \in Nat
  BY DEF StoredSecret, Never
<1>4. QED
  BY <1>1, <1>2, <1>3 DEF Never

\* What a rotation stores: the new secret, then the first that never expires of the
\* set that was read.
LEMMA RotatedSet ==
  ASSUME NEW set \in SecretSet, NEW s \in Secret
  PROVE  /\ rotated_secrets(set, s) =
                <<Entry(s, Never), Entry(set[1].secret, ROTATION_OVERLAP)>>
         /\ rotated_secrets(set, s) \in SecretSet
<1> USE SecretsAssumption
<1>1. /\ set \in Seq(StoredSecret) /\ 1 \in DOMAIN set
      /\ set[1] \in StoredSecret /\ set[1].left = Never
      /\ DOMAIN set \subseteq Nat \ {0}
  BY SetShape
<1> DEFINE P(i) == set[i].left = Never /\ \A j \in 1..(i - 1) : set[j].left # Never
<1>2. P(1)
  BY <1>1
<1>3. \A i \in DOMAIN set : P(i) => i = 1
  <2> SUFFICES ASSUME NEW i \in DOMAIN set, i # 1, P(i) PROVE FALSE
    OBVIOUS
  <2>1. 1 \in 1..(i - 1)
    BY <1>1
  <2>2. QED
    BY <1>1, <2>1
<1>4. (CHOOSE i \in DOMAIN set : P(i)) = 1
  BY <1>1, <1>2, <1>3
<1>5. rotated_secrets(set, s) = <<Entry(s, Never), Entry(set[1].secret, ROTATION_OVERLAP)>>
  BY <1>4, Zenon DEF rotated_secrets
<1>6. <<Entry(s, Never), Entry(set[1].secret, ROTATION_OVERLAP)>> \in SecretSet
  BY <1>1, SetShape DEF SecretSet, StoredSecret, Entry, Never
<1>7. QED
  BY <1>5, <1>6

\* Time ages a set entry by entry and keeps its shape.
LEMMA AgedSet ==
  ASSUME NEW set \in SecretSet
  PROVE  /\ Older(set) \in SecretSet /\ Len(Older(set)) = Len(set)
         /\ \A i \in 1..Len(set) : /\ Older(set)[i].secret = set[i].secret
                                   /\ Older(set)[i].left = Sooner(set[i].left)
<1> USE SecretsAssumption
<1>1. /\ set \in Seq(StoredSecret) /\ Len(set) \in {1, 2}
      /\ DOMAIN set = 1..Len(set) /\ set[1].left = Never
      /\ Len(set) = 2 => set[2].left # Never
      /\ \A i \in 1..Len(set) : set[i].secret \in Secret /\ set[i].left \in 0..Never
  BY SetShape
<1>2. /\ Sooner(Never) = Never
      /\ \A n \in 0..Never : Sooner(n) \in 0..Never /\ (n # Never => Sooner(n) # Never)
  BY DEF Sooner, Never
<1>3. Older(set) = [i \in 1..Len(set) |-> Entry(set[i].secret, Sooner(set[i].left))]
  BY <1>1 DEF Older
<1>4. \A i \in 1..Len(set) :
        /\ Older(set)[i] \in StoredSecret
        /\ Older(set)[i].secret = set[i].secret /\ Older(set)[i].left = Sooner(set[i].left)
  <2> SUFFICES ASSUME NEW i \in 1..Len(set)
      PROVE  /\ Older(set)[i] \in StoredSecret
             /\ Older(set)[i].secret = set[i].secret /\ Older(set)[i].left = Sooner(set[i].left)
    OBVIOUS
  <2>1. Older(set)[i] = Entry(set[i].secret, Sooner(set[i].left))
    BY <1>3
  <2>2. set[i].secret \in Secret /\ Sooner(set[i].left) \in 0..Never
    BY <1>1, <1>2
  <2>3. QED
    BY <2>1, <2>2 DEF Entry, StoredSecret
<1>5. Older(set) \in Seq(StoredSecret) /\ Len(Older(set)) = Len(set)
  BY <1>1, <1>3, <1>4
<1>6. QED
  <2>1. 1 \in 1..Len(set) /\ (Len(set) = 2 => 2 \in 1..Len(set))
    BY <1>1
  <2>2. Older(set)[1].left = Never /\ (Len(set) = 2 => Older(set)[2].left # Never)
    BY <1>1, <1>2, <1>4, <2>1
  <2>3. QED
    BY <1>1, <1>4, <1>5, <2>2, Zenon DEF SecretSet

\* Rotations, in whatever order they read and write.
LEMMA RotationKeeps ==
  ASSUME SecretsInvariant,
         NEW q \in Request, NEW s \in Secret, rotate_webhook_secrets(q, s)
  PROVE  SecretsInvariant'
<1> USE SecretsAssumption
<1>1. request[q] \in SecretSet /\ secrets \in SecretSet
  BY DEF rotate_webhook_secrets, SecretsInvariant, SecretsType
<1>2. /\ secrets' = <<Entry(s, Never), Entry(request[q][1].secret, ROTATION_OVERLAP)>>
      /\ secrets' \in SecretSet
  BY <1>1, RotatedSet DEF rotate_webhook_secrets
<1>3. /\ request' = [request EXCEPT ![q] = Idle]
      /\ owed' = [x \in Secret |-> IF x = s THEN Never
                                   ELSE IF owed[x] = Never THEN ROTATION_OVERLAP ELSE owed[x]]
      /\ last' = [secret |-> secrets[1].secret, raced |-> request[q][1] # secrets[1]]
      /\ s \notin Stored
  BY DEF rotate_webhook_secrets, Fresh
<1>4. /\ secrets[1].secret \in Secret /\ secrets[1].secret # s /\ owed[secrets[1].secret] = Never
  <2>1. secrets[1].secret \in Secret /\ 1 \in DOMAIN secrets
    BY <1>1, SetShape
  <2>2. QED
    BY <1>3, <2>1 DEF SecretsInvariant, Stored
<1>5. SecretsType'
  BY <1>2, <1>3, <1>4 DEF SecretsInvariant, SecretsType, Never
<1>6. Len(secrets') = 2 /\ secrets'[1].secret = s
      /\ secrets'[2].secret = request[q][1].secret /\ secrets'[2].left = ROTATION_OVERLAP
  BY <1>2 DEF Entry
<1>7. owed'[s] = Never /\ owed'[secrets[1].secret] = ROTATION_OVERLAP
  BY <1>3, <1>4
<1>8. ~last'.raced => request[q][1].secret = secrets[1].secret
  BY <1>3, Zenon
<1>9. QED
  BY <1>3, <1>5, <1>6, <1>7, <1>8 DEF SecretsInvariant

\* Time.
LEMMA TickKeeps ==
  ASSUME SecretsInvariant, SecretsTick
  PROVE  SecretsInvariant'
<1> USE SecretsAssumption
<1>1. /\ secrets \in SecretSet /\ secrets' = Older(secrets)
      /\ owed' = [s \in Secret |-> Sooner(owed[s])] /\ last' = last
      /\ request' = [q \in Request |-> IF request[q] = Idle THEN Idle ELSE Older(request[q])]
  BY DEF SecretsTick, SecretsInvariant, SecretsType
<1>2. /\ secrets' \in SecretSet /\ Len(secrets') = Len(secrets)
      /\ \A i \in 1..Len(secrets) : /\ secrets'[i].secret = secrets[i].secret
                                    /\ secrets'[i].left = Sooner(secrets[i].left)
  BY <1>1, AgedSet
<1>3. /\ Sooner(Never) = Never
      /\ \A n \in 0..Never : Sooner(n) \in 0..Never
      /\ \A m, n \in 0..Never : m <= n /\ n # Never => Sooner(m) <= Sooner(n)
  BY DEF Sooner, Never
<1>4. SecretsType'
  <2>1. request' \in [Request -> SecretSet \cup {Idle}]
    BY <1>1, AgedSet DEF SecretsInvariant, SecretsType
  <2>2. QED
    BY <1>1, <1>2, <1>3, <2>1 DEF SecretsInvariant, SecretsType
<1>5. /\ Len(secrets) \in {1, 2} /\ secrets[1].secret \in Secret /\ last.secret \in Secret
      /\ Len(secrets) = 2 => secrets[2].left \in 0..Never /\ secrets[2].left # Never
  <2>1. 2 \in 1..2 /\ last.secret \in Secret
    BY DEF SecretsInvariant, SecretsType
  <2>2. QED
    BY <1>1, <2>1, SetShape
<1>6. owed'[secrets'[1].secret] = Never
  BY <1>1, <1>2, <1>3, <1>5 DEF SecretsInvariant
<1>7. owed[last.secret] \in 0..Never /\ owed'[last.secret] = Sooner(owed[last.secret])
  BY <1>1, <1>5 DEF SecretsInvariant, SecretsType
<1>8. QED
  BY <1>1, <1>2, <1>3, <1>4, <1>5, <1>6, <1>7 DEF SecretsInvariant

\* Whatever rotations overlap and whenever the endpoint is disabled, a rotation that
\* no other overtook keeps the secret it replaced signing for as long as the owner was
\* told (rotate, rotated_secrets, signing_keys).
THEOREM ReplacedSecretSigns == SecretsSpec => []PredecessorSigns
<1> USE SecretsAssumption
<1>1. SecretsInit => SecretsInvariant
  <2> SUFFICES ASSUME SecretsInit PROVE SecretsInvariant
    OBVIOUS
  <2>1. First \in Secret
    BY DEF First
  <2>2. <<Entry(First, Never)>> \in SecretSet
    BY <2>1 DEF SecretSet, StoredSecret, Entry, Never
  <2>3. QED
    BY <2>1, <2>2 DEF SecretsInit, SecretsInvariant, SecretsType, Entry, Never
<1>2. SecretsInvariant /\ [SecretsNext]_secretVars => SecretsInvariant'
  <2> SUFFICES ASSUME SecretsInvariant, [SecretsNext]_secretVars PROVE SecretsInvariant'
    OBVIOUS
  <2>1. ASSUME NEW q \in Request, ReadRotation(q) \/ RotationRefused(q)
        PROVE  SecretsInvariant'
    BY <2>1 DEF ReadRotation, RotationRefused, SecretsInvariant, SecretsType
  <2>2. CASE DisabledMeanwhile
    BY <2>2 DEF DisabledMeanwhile, SecretsInvariant, SecretsType
  <2>3. CASE UNCHANGED secretVars
    BY <2>3 DEF secretVars, SecretsInvariant, SecretsType
  <2>4. QED
    BY <2>1, <2>2, <2>3, RotationKeeps, TickKeeps DEF SecretsNext
<1>3. SecretsInvariant => PredecessorSigns
  <2> SUFFICES ASSUME SecretsInvariant, ~last.raced, owed[last.secret] > 0
               PROVE  last.secret \in signing_keys
    BY DEF PredecessorSigns
  <2>1. /\ DOMAIN secrets = 1..Len(secrets) /\ Len(secrets) \in {1, 2}
        /\ secrets[1].left = Never /\ owed[last.secret] \in Nat
        /\ Len(secrets) = 2 => secrets[2].left \in Nat
    <3>1. secrets \in SecretSet /\ last.secret \in Secret /\ 2 \in 1..2
      BY DEF SecretsInvariant, SecretsType
    <3>2. owed[last.secret] \in Nat
      BY <3>1 DEF SecretsInvariant, SecretsType, Never
    <3>3. QED
      BY <3>1, <3>2, SetShape
  <2>2. CASE Len(secrets) = 1
    BY <2>1, <2>2 DEF SecretsInvariant, signing_keys, Never
  <2>3. CASE Len(secrets) = 2
    BY <2>1, <2>3 DEF SecretsInvariant, signing_keys
  <2>4. QED
    BY <2>1, <2>2, <2>3
<1>4. QED
  BY <1>1, <1>2, <1>3, PTL DEF SecretsSpec
=============================================================================

------------------------- MODULE MailOutbox_proofs -------------------------
(***************************************************************************)
(* Proofs about MailOutbox, for every set of messages, every finite set of    *)
(* workers, and every value of the limits and bounds.  The argument is the    *)
(* budget: a message may be claimed without asking anybody, or is carried by  *)
(* workers that may still hand it over, or was accepted, and each of these    *)
(* costs one of what its first queueing, the operators' retries and the       *)
(* claims of rows still being sent have granted.  A claim turns what is ready *)
(* into a carrier, the mail server turns a carrier into an acceptance, and a  *)
(* recorded failure turns a carrier into what is ready again.                 *)
(***************************************************************************)
EXTENDS MailOutbox, FiniteSetTheorems, WellFoundedInduction, TLAPS

\* The numbers among the constants.
LEMMA Bounds ==
    /\ Stale \in Nat \ {0} /\ MaxTries \in Nat \ {0}
    /\ MaxConsents \in Nat /\ MaxChanges \in Nat /\ MaxFaults \in Nat
BY MailAssumption

USE Bounds
-----------------------------------------------------------------------------
(* The inductive invariant.                                                 *)

\* What a worker has an acceptance for was accepted.
AcceptedWasTaken ==
    \A w \in Worker : at[w] = "accepted" => accepted[Item(w)] > 0

\* The invariants of the mail, and what they need.
MailIInv ==
    /\ TypeOK
    /\ PassesHold
    /\ TriesCounted
    /\ SentWasAccepted
    /\ AcceptedWasTaken
    /\ SendBudget
-----------------------------------------------------------------------------
(* The message a worker is at, and who carries a message.                   *)

\* A set of numbers that is not empty has a least one.
LEMMA LeastOf ==
    ASSUME NEW S, S \subseteq Nat, S # {}
    PROVE  \E x \in S : \A y \in S : x <= y
<1>. DEFINE Less == {p \in Nat \X Nat : p[1] < p[2]}
<1>1. IsWellFoundedOn(Less, Nat)
  BY NatLessThanWellFounded DEF OpToRel
<1>2. \A a, b \in Nat : a < b => <<a, b>> \in Less
  OBVIOUS
<1>. HIDE DEF Less
<1>3. PICK x \in S : \A y \in S : ~ (<<y, x>> \in Less)
  BY <1>1, WFMin
<1>4. \A y \in S : ~ (y < x)
  BY <1>2, <1>3, Zenon
<1>5. \A y \in S : x <= y
  BY <1>4
<1>. QED  BY <1>5

\* A worker that is in a pass is at a message of its batch.
LEMMA ItemInBatch ==
    ASSUME TypeOK, PassesHold, NEW w \in Worker, at[w] \notin {"idle", "recovered"}
    PROVE  Item(w) \in batch[w] /\ Item(w) \in Message
<1>1. batch[w] \subseteq Message /\ batch[w] \subseteq Nat
  BY MailAssumption DEF TypeOK
<1>2. batch[w] # {}
  BY DEF PassesHold
<1>3. \E x \in batch[w] : \A y \in batch[w] : x <= y
  BY <1>1, <1>2, LeastOf
<1>4. Item(w) \in batch[w]
  BY <1>3 DEF Item
<1>. QED  BY <1>1, <1>4

\* It stays there while its batch does.
LEMMA ItemKept ==
    ASSUME NEW w, batch'[w] = batch[w]
    PROVE  Item(w)' = Item(w)
BY DEF Item

\* The carriers of a message can be counted.
LEMMA CarriersCounted ==
    ASSUME NEW m
    PROVE  IsFiniteSet(Carriers(m)) /\ Cardinality(Carriers(m)) \in Nat
BY MailAssumption, FS_Subset, FS_CardinalityType DEF Carriers

\* A set grows by one element at most, and shrinks by one at least.
LEMMA CountGrows ==
    ASSUME NEW S, IsFiniteSet(S), NEW x, NEW T, T \subseteq S \cup {x}
    PROVE  Cardinality(T) \in Nat /\ Cardinality(T) <= Cardinality(S) + 1
<1>1. IsFiniteSet(S \cup {x}) /\ Cardinality(S \cup {x}) <= Cardinality(S) + 1
  <2>1. Cardinality(S) \in Nat
    BY FS_CardinalityType
  <2>2. CASE x \in S
    <3>1. S \cup {x} = S
      BY <2>2
    <3>2. IsFiniteSet(S \cup {x}) /\ Cardinality(S \cup {x}) = Cardinality(S)
      BY <3>1, Zenon
    <3>. QED  BY <2>1, <3>2
  <2>3. CASE x \notin S
    <3>1. IsFiniteSet(S \cup {x}) /\ Cardinality(S \cup {x}) = Cardinality(S) + 1
      BY <2>3, FS_AddElement
    <3>. QED  BY <2>1, <3>1
  <2>. QED  BY <2>2, <2>3
<1>2. IsFiniteSet(T) /\ Cardinality(T) <= Cardinality(S \cup {x})
  BY <1>1, FS_Subset
<1>3. Cardinality(S) \in Nat /\ Cardinality(T) \in Nat /\ Cardinality(S \cup {x}) \in Nat
  BY <1>1, <1>2, FS_CardinalityType
<1>. QED  BY <1>1, <1>2, <1>3

\* A set that loses an element is smaller by one at least.
LEMMA CountShrinks ==
    ASSUME NEW S, IsFiniteSet(S), NEW x \in S, NEW T, T \subseteq S \ {x}
    PROVE  Cardinality(T) \in Nat /\ Cardinality(T) <= Cardinality(S) - 1
<1>1. IsFiniteSet(S \ {x}) /\ Cardinality(S \ {x}) = Cardinality(S) - 1
  BY FS_RemoveElement
<1>. QED  BY <1>1, FS_Subset, FS_CardinalityType

\* Who carries a message depends on the workers alone.
LEMMA CarriersAs ==
    ASSUME NEW m, UNCHANGED workerVars
    PROVE  Carriers(m)' = Carriers(m)
BY DEF Carriers, Item, workerVars

\* A worker that is done with its message lets go of it, and carries the rest on.
LEMMA DoneCarriers ==
    ASSUME TypeOK, PassesHold, NEW w \in Worker, at[w] \in {"accepted", "refused", "unsure"},
           Done(w), NEW m \in Message
    PROVE  /\ m # Item(w) => Carriers(m)' \subseteq Carriers(m)
           /\ m = Item(w) => Carriers(m)' \subseteq Carriers(m) \ {w}
<1>1. \A v \in Worker : v # w => batch'[v] = batch[v] /\ at'[v] = at[v]
  BY DEF Done, TypeOK
<1>2. batch'[w] = batch[w] \ {Item(w)} /\ at'[w] \in {"idle", "next"}
  BY DEF Done, TypeOK
<1>3. \A v \in Worker : v # w => (v \in Carriers(m)' <=> v \in Carriers(m))
  BY <1>1, ItemKept DEF Carriers
<1>4. w \in Carriers(m)' => m # Item(w) /\ m \in batch[w]
  BY <1>2 DEF Carriers
<1>5. m # Item(w) /\ m \in batch[w] => w \in Carriers(m)
  BY DEF Carriers
<1>6. Carriers(m)' \subseteq Worker
  BY DEF Carriers
<1>. QED  BY <1>3, <1>4, <1>5, <1>6

\* The budget after a step that neither sends nor claims.
LEMMA BudgetKept ==
    ASSUME MailIInv, TypeOK', UNCHANGED <<accepted, reclaimed>>,
           \A m \in Message :
             /\ Carriers(m)' \subseteq Carriers(m)
             /\ Ready(m)' <= Ready(m) + (consents'[m] - consents[m])
    PROVE  SendBudget'
<1>. SUFFICES ASSUME NEW m \in Message
              PROVE  accepted'[m] + Cardinality(Carriers(m)') + Ready(m)'
                       <= 1 + consents'[m] + reclaimed'[m]
  BY DEF SendBudget
<1>1. /\ Cardinality(Carriers(m)) \in Nat /\ Cardinality(Carriers(m)') \in Nat
      /\ Cardinality(Carriers(m)') <= Cardinality(Carriers(m))
  <2>1. IsFiniteSet(Carriers(m)) /\ Carriers(m)' \subseteq Carriers(m)
    BY CarriersCounted
  <2>2. IsFiniteSet(Carriers(m)') /\ Cardinality(Carriers(m)') <= Cardinality(Carriers(m))
    BY <2>1, FS_Subset
  <2>. QED  BY <2>1, <2>2, FS_CardinalityType
<1>2. accepted[m] + Cardinality(Carriers(m)) + Ready(m) <= 1 + consents[m] + reclaimed[m]
  BY DEF MailIInv, SendBudget
<1>3. /\ accepted[m] \in Nat /\ consents[m] \in Nat /\ reclaimed[m] \in Nat
      /\ consents'[m] \in Nat
  BY DEF MailIInv, TypeOK
<1>4. Ready(m) \in Nat /\ Ready(m)' \in Nat /\ Ready(m)' <= Ready(m) + (consents'[m] - consents[m])
  BY DEF Ready
<1>5. accepted'[m] = accepted[m] /\ reclaimed'[m] = reclaimed[m]
  OBVIOUS
<1>. HIDE DEF Carriers
<1>. QED  BY <1>1, <1>2, <1>3, <1>4, <1>5, SMTT(30)
-----------------------------------------------------------------------------
(* Every step keeps the invariant.                                          *)

\* A new row has no attempt, and nobody carries it.
LEMMA QueueKeeps ==
    ASSUME MailIInv, NEW m \in Message, Queue(m)
    PROVE  MailIInv'
<1>1. TypeOK'
  BY DEF Queue, workerVars, rowVars, Status, MailIInv, TypeOK
<1>2. PassesHold'
  BY DEF Queue, workerVars, MailIInv, PassesHold
<1>3. TriesCounted'
  BY DEF Queue, workerVars, rowVars, MailIInv, TriesCounted
<1>4. SentWasAccepted'
  BY DEF Queue, rowVars, MailIInv, SentWasAccepted
<1>5. AcceptedWasTaken'
  BY ItemKept DEF Queue, workerVars, MailIInv, AcceptedWasTaken
<1>6. SendBudget'
  <2>1. \A o \in Message : Ready(o)' <= Ready(o) + (consents'[o] - consents[o])
    BY DEF Queue, Ready, rowVars, MailIInv, TypeOK
  <2>2. \A o \in Message : Carriers(o)' \subseteq Carriers(o)
    BY CarriersAs DEF Queue
  <2>. QED  BY <1>1, <2>1, <2>2, BudgetKept DEF Queue
<1>. QED  BY <1>1, <1>2, <1>3, <1>4, <1>5, <1>6 DEF MailIInv

\* An operator cancels a row, whoever carries it.
LEMMA CancelKeeps ==
    ASSUME MailIInv, NEW m \in Message, Cancel(m)
    PROVE  MailIInv'
<1>1. TypeOK'
  BY DEF Cancel, workerVars, rowVars, Status, MailIInv, TypeOK
<1>2. PassesHold'
  BY DEF Cancel, workerVars, MailIInv, PassesHold
<1>3. TriesCounted'
  BY DEF Cancel, workerVars, rowVars, MailIInv, TriesCounted
<1>4. SentWasAccepted'
  BY DEF Cancel, rowVars, MailIInv, SentWasAccepted
<1>5. AcceptedWasTaken'
  BY ItemKept DEF Cancel, workerVars, MailIInv, AcceptedWasTaken
<1>6. SendBudget'
  <2>1. \A o \in Message : Ready(o)' <= Ready(o) + (consents'[o] - consents[o])
    BY DEF Cancel, Ready, rowVars, MailIInv, TypeOK
  <2>2. \A o \in Message : Carriers(o)' \subseteq Carriers(o)
    BY CarriersAs DEF Cancel
  <2>. QED  BY <1>1, <2>1, <2>2, BudgetKept DEF Cancel
<1>. QED  BY <1>1, <1>2, <1>3, <1>4, <1>5, <1>6 DEF MailIInv

\* An operator has a row tried again: the consent allows one acceptance more.
LEMMA RetryKeeps ==
    ASSUME MailIInv, NEW m \in Message, Retry(m)
    PROVE  MailIInv'
<1>1. TypeOK'
  <2>1. /\ row' \in [Message -> Status] /\ wait' \in [Message -> Nat \cup {Never}]
        /\ asked' \in [Message -> 0..Stale]
    BY DEF Retry, MailIInv, TypeOK, Status
  <2>2. consents' \in [Message -> 0..MaxConsents]
    <3>1. consents[m] + 1 \in 0..MaxConsents
      BY DEF Retry, MailIInv, TypeOK
    <3>. QED  BY <3>1 DEF Retry, MailIInv, TypeOK
  <2>. QED  BY <2>1, <2>2 DEF Retry, workerVars, MailIInv, TypeOK
<1>2. PassesHold'
  BY DEF Retry, workerVars, MailIInv, PassesHold
<1>3. TriesCounted'
  BY DEF Retry, workerVars, rowVars, MailIInv, TriesCounted
<1>4. SentWasAccepted'
  BY DEF Retry, rowVars, MailIInv, SentWasAccepted
<1>5. AcceptedWasTaken'
  BY ItemKept DEF Retry, workerVars, MailIInv, AcceptedWasTaken
<1>6. SendBudget'
  <2>1. \A o \in Message : Ready(o)' <= Ready(o) + (consents'[o] - consents[o])
    BY DEF Retry, Ready, rowVars, MailIInv, TypeOK
  <2>2. \A o \in Message : Carriers(o)' \subseteq Carriers(o)
    BY CarriersAs DEF Retry
  <2>. QED  BY <1>1, <2>1, <2>2, BudgetKept DEF Retry
<1>. QED  BY <1>1, <1>2, <1>3, <1>4, <1>5, <1>6 DEF MailIInv

\* So does the console's retry, after its ten minutes.
LEMMA AdminRetryKeeps ==
    ASSUME MailIInv, NEW m \in Message, AdminRetry(m)
    PROVE  MailIInv'
<1>1. TypeOK'
  <2>1. /\ row' \in [Message -> Status] /\ wait' \in [Message -> Nat \cup {Never}]
        /\ asked' \in [Message -> 0..Stale]
    BY DEF AdminRetry, MailIInv, TypeOK, Status
  <2>2. consents' \in [Message -> 0..MaxConsents]
    <3>1. consents[m] + 1 \in 0..MaxConsents
      BY DEF AdminRetry, MailIInv, TypeOK
    <3>. QED  BY <3>1 DEF AdminRetry, MailIInv, TypeOK
  <2>. QED  BY <2>1, <2>2 DEF AdminRetry, workerVars, MailIInv, TypeOK
<1>2. PassesHold'
  BY DEF AdminRetry, workerVars, MailIInv, PassesHold
<1>3. TriesCounted'
  BY DEF AdminRetry, workerVars, rowVars, MailIInv, TriesCounted
<1>4. SentWasAccepted'
  BY DEF AdminRetry, rowVars, MailIInv, SentWasAccepted
<1>5. AcceptedWasTaken'
  BY ItemKept DEF AdminRetry, workerVars, MailIInv, AcceptedWasTaken
<1>6. SendBudget'
  <2>1. \A o \in Message : Ready(o)' <= Ready(o) + (consents'[o] - consents[o])
    BY DEF AdminRetry, Ready, rowVars, MailIInv, TypeOK
  <2>2. \A o \in Message : Carriers(o)' \subseteq Carriers(o)
    BY CarriersAs DEF AdminRetry
  <2>. QED  BY <1>1, <2>1, <2>2, BudgetKept DEF AdminRetry
<1>. QED  BY <1>1, <1>2, <1>3, <1>4, <1>5, <1>6 DEF MailIInv

\* The license is stopped or lifted beside the row.
LEMMA WithholdKeeps ==
    ASSUME MailIInv, NEW m \in Message, Withhold(m)
    PROVE  MailIInv'
<1>1. TypeOK'
  <2>1. standing' \in [Message -> {"valid", "withheld", "superseded", "rotated"}]
    BY DEF Withhold, MailIInv, TypeOK
  <2>2. changes' \in 0..MaxChanges
    BY DEF Withhold, MailIInv, TypeOK
  <2>. QED  BY <2>1, <2>2 DEF Withhold, workerVars, rowVars, MailIInv, TypeOK
<1>2. PassesHold'
  BY DEF Withhold, workerVars, MailIInv, PassesHold
<1>3. TriesCounted'
  BY DEF Withhold, workerVars, rowVars, MailIInv, TriesCounted
<1>4. SentWasAccepted'
  BY DEF Withhold, rowVars, MailIInv, SentWasAccepted
<1>5. AcceptedWasTaken'
  BY ItemKept DEF Withhold, workerVars, MailIInv, AcceptedWasTaken
<1>6. SendBudget'
  <2>1. \A o \in Message : Ready(o)' <= Ready(o) + (consents'[o] - consents[o])
    BY DEF Withhold, Ready, rowVars, MailIInv, TypeOK
  <2>2. \A o \in Message : Carriers(o)' \subseteq Carriers(o)
    BY CarriersAs DEF Withhold
  <2>. QED  BY <1>1, <2>1, <2>2, BudgetKept DEF Withhold
<1>. QED  BY <1>1, <1>2, <1>3, <1>4, <1>5, <1>6 DEF MailIInv

\* The license gets another holder: what is queued is cancelled.
LEMMA SupersedeKeeps ==
    ASSUME MailIInv, NEW m \in Message, Supersede(m)
    PROVE  MailIInv'
<1>1. TypeOK'
  <2>1. standing' \in [Message -> {"valid", "withheld", "superseded", "rotated"}]
    BY DEF Supersede, MailIInv, TypeOK
  <2>2. row' \in [Message -> Status]
    BY DEF Supersede, MailIInv, TypeOK, Status
  <2>3. wait' \in [Message -> Nat \cup {Never}]
    BY DEF Supersede, MailIInv, TypeOK
  <2>4. changes' \in 0..MaxChanges
    BY DEF Supersede, MailIInv, TypeOK
  <2>. QED  BY <2>1, <2>2, <2>3, <2>4 DEF Supersede, workerVars, MailIInv, TypeOK
<1>2. PassesHold'
  BY DEF Supersede, workerVars, MailIInv, PassesHold
<1>3. TriesCounted'
  BY DEF Supersede, workerVars, rowVars, MailIInv, TriesCounted
<1>4. SentWasAccepted'
  BY DEF Supersede, rowVars, MailIInv, SentWasAccepted
<1>5. AcceptedWasTaken'
  BY ItemKept DEF Supersede, workerVars, MailIInv, AcceptedWasTaken
<1>6. SendBudget'
  <2>1. \A o \in Message : Ready(o)' <= Ready(o) + (consents'[o] - consents[o])
    BY DEF Supersede, Ready, rowVars, MailIInv, TypeOK
  <2>2. \A o \in Message : Carriers(o)' \subseteq Carriers(o)
    BY CarriersAs DEF Supersede
  <2>. QED  BY <1>1, <2>1, <2>2, BudgetKept DEF Supersede
<1>. QED  BY <1>1, <1>2, <1>3, <1>4, <1>5, <1>6 DEF MailIInv

\* The license gets another key: what was sealed with the old one fails.
LEMMA RotateKeeps ==
    ASSUME MailIInv, NEW m \in Message, Rotate(m)
    PROVE  MailIInv'
<1>1. TypeOK'
  <2>1. standing' \in [Message -> {"valid", "withheld", "superseded", "rotated"}]
    BY DEF Rotate, MailIInv, TypeOK
  <2>2. row' \in [Message -> Status]
    BY DEF Rotate, MailIInv, TypeOK, Status
  <2>3. wait' \in [Message -> Nat \cup {Never}]
    BY DEF Rotate, MailIInv, TypeOK
  <2>4. changes' \in 0..MaxChanges
    BY DEF Rotate, MailIInv, TypeOK
  <2>. QED  BY <2>1, <2>2, <2>3, <2>4 DEF Rotate, workerVars, MailIInv, TypeOK
<1>2. PassesHold'
  BY DEF Rotate, workerVars, MailIInv, PassesHold
<1>3. TriesCounted'
  BY DEF Rotate, workerVars, rowVars, MailIInv, TriesCounted
<1>4. SentWasAccepted'
  BY DEF Rotate, rowVars, MailIInv, SentWasAccepted
<1>5. AcceptedWasTaken'
  BY ItemKept DEF Rotate, workerVars, MailIInv, AcceptedWasTaken
<1>6. SendBudget'
  <2>1. \A o \in Message : Ready(o)' <= Ready(o) + (consents'[o] - consents[o])
    BY DEF Rotate, Ready, rowVars, MailIInv, TypeOK
  <2>2. \A o \in Message : Carriers(o)' \subseteq Carriers(o)
    BY CarriersAs DEF Rotate
  <2>. QED  BY <1>1, <2>1, <2>2, BudgetKept DEF Rotate
<1>. QED  BY <1>1, <1>2, <1>3, <1>4, <1>5, <1>6 DEF MailIInv

\* Time passes for waits and ages.
LEMMA TickKeeps ==
    ASSUME MailIInv, Tick
    PROVE  MailIInv'
<1>1. TypeOK'
  <2>1. age' \in [Message -> 0..Stale + 1]
    BY DEF Tick, Min2, MailIInv, TypeOK
  <2>2. wait' \in [Message -> Nat \cup {Never}]
    BY DEF Tick, Never, MailIInv, TypeOK
  <2>3. asked' \in [Message -> 0..Stale]
    BY DEF Tick, Min2, MailIInv, TypeOK
  <2>. QED  BY <2>1, <2>2, <2>3 DEF Tick, workerVars, MailIInv, TypeOK
<1>2. PassesHold'
  BY DEF Tick, workerVars, MailIInv, PassesHold
<1>3. TriesCounted'
  BY DEF Tick, workerVars, MailIInv, TriesCounted
<1>4. SentWasAccepted'
  BY DEF Tick, MailIInv, SentWasAccepted
<1>5. AcceptedWasTaken'
  BY ItemKept DEF Tick, workerVars, MailIInv, AcceptedWasTaken
<1>6. SendBudget'
  <2>1. \A o \in Message : Ready(o)' <= Ready(o) + (consents'[o] - consents[o])
    BY DEF Tick, Ready, MailIInv, TypeOK
  <2>2. \A o \in Message : Carriers(o)' \subseteq Carriers(o)
    BY CarriersAs DEF Tick
  <2>. QED  BY <1>1, <2>1, <2>2, BudgetKept DEF Tick
<1>. QED  BY <1>1, <1>2, <1>3, <1>4, <1>5, <1>6 DEF MailIInv

\* A pass starts with what an earlier one left in sending: a row somebody still
\* carries may be among them.
LEMMA RecoverKeeps ==
    ASSUME MailIInv, NEW w \in Worker, Recover(w)
    PROVE  MailIInv'
<1>1. TypeOK'
  BY DEF Recover, Status, Step, Never, MailIInv, TypeOK
<1>2. PassesHold'
  BY DEF Recover, MailIInv, PassesHold
<1>3. TriesCounted'
  BY DEF Recover, MailIInv, TriesCounted
<1>4. SentWasAccepted'
  BY DEF Recover, MailIInv, SentWasAccepted
<1>5. AcceptedWasTaken'
  BY ItemKept DEF Recover, MailIInv, AcceptedWasTaken
<1>6. SendBudget'
  <2>1. \A o \in Message : Ready(o)' <= Ready(o) + (consents'[o] - consents[o])
    BY DEF Recover, Ready, rowVars, MailIInv, TypeOK, Interrupted
  <2>2. \A o \in Message : Carriers(o)' \subseteq Carriers(o)
    <3>1. \A v \in Worker : batch'[v] = batch[v] /\ Item(v)' = Item(v)
      BY ItemKept DEF Recover
    <3>2. batch[w] = {} /\ \A v \in Worker : v # w => at'[v] = at[v]
      BY DEF Recover, MailIInv, TypeOK, PassesHold
    <3>. QED  BY <3>1, <3>2 DEF Carriers
  <2>. QED  BY <1>1, <2>1, <2>2, BudgetKept DEF Recover
<1>. QED  BY <1>1, <1>2, <1>3, <1>4, <1>5, <1>6 DEF MailIInv

\* A pass claims its batch, which is where an attempt is counted: a row that another
\* pass still carries costs the budget one claim more.
LEMMA ClaimKeeps ==
    ASSUME MailIInv, NEW w \in Worker, Claim(w)
    PROVE  MailIInv'
<1>. DEFINE mine == {m \in Selected : standing[m] = "valid"}
<1>a. /\ mine \subseteq Selected /\ Selected \subseteq Message
      /\ at[w] = "recovered" /\ batch[w] = {}
      /\ \A m \in mine : standing[m] = "valid" /\ row[m] \in {"pending", "failed", "sending"}
  BY DEF Selected, Due, Claim, MailIInv, PassesHold
<1>b. /\ row' = [m \in Message |-> IF m \in mine THEN "sending"
                                   ELSE IF m \in Selected THEN "cancelled"
                                   ELSE row[m]]
      /\ wait' = [m \in Message |-> IF m \in Selected \ mine THEN Never ELSE wait[m]]
      /\ tries' = [m \in Message |-> IF m \in mine THEN tries[m] + 1 ELSE tries[m]]
      /\ age' = [m \in Message |-> IF m \in mine THEN 0 ELSE age[m]]
      /\ reclaimed' = [m \in Message |->
                         IF m \in mine /\ row[m] = "sending" THEN reclaimed[m] + 1
                                                             ELSE reclaimed[m]]
      /\ batch' = [batch EXCEPT ![w] = mine]
      /\ at' = [at EXCEPT ![w] = IF mine = {} THEN "idle" ELSE "next"]
      /\ UNCHANGED <<standing, asked, accepted, consents, changes, faults>>
  BY DEF Claim
<1>c. /\ batch'[w] = mine
      /\ at'[w] = IF mine = {} THEN "idle" ELSE "next"
      /\ \A v \in Worker : v # w => batch'[v] = batch[v] /\ at'[v] = at[v]
  BY <1>b DEF MailIInv, TypeOK
<1>. HIDE DEF mine
<1>1. TypeOK'
  <2>1. row' \in [Message -> Status] /\ wait' \in [Message -> Nat \cup {Never}]
    BY <1>b DEF MailIInv, TypeOK, Status
  <2>2. /\ tries' \in [Message -> Nat] /\ age' \in [Message -> 0..Stale + 1]
        /\ reclaimed' \in [Message -> Nat]
    BY <1>b DEF MailIInv, TypeOK
  <2>3. at' \in [Worker -> Step] /\ batch' \in [Worker -> SUBSET Message]
    BY <1>a, <1>b DEF MailIInv, TypeOK, Step
  <2>. QED  BY <1>b, <2>1, <2>2, <2>3 DEF MailIInv, TypeOK
<1>2. PassesHold'
  BY <1>c DEF MailIInv, PassesHold
<1>3. TriesCounted'
  <2>1. \A m \in Message : tries'[m] >= tries[m] /\ (m \in mine => tries'[m] > 0)
    BY <1>b DEF MailIInv, TypeOK
  <2>2. \A m \in Message : tries[m] \in Nat /\ tries'[m] \in Nat
    BY <1>1 DEF MailIInv, TypeOK
  <2>3. \A v \in Worker : batch[v] \subseteq Message
    BY DEF MailIInv, TypeOK
  <2>. SUFFICES ASSUME NEW v \in Worker, NEW m \in batch'[v]
                PROVE  tries'[m] > 0
    BY DEF TriesCounted
  <2>4. CASE v = w
    BY <1>a, <1>c, <2>1, <2>4
  <2>5. CASE v # w
    <3>1. m \in batch[v] /\ m \in Message
      BY <1>c, <2>3, <2>5
    <3>2. tries[m] > 0
      BY <3>1 DEF MailIInv, TriesCounted
    <3>. QED  BY <2>1, <2>2, <3>1, <3>2
  <2>. QED  BY <2>4, <2>5
<1>4. SentWasAccepted'
  BY <1>b DEF MailIInv, SentWasAccepted
<1>5. AcceptedWasTaken'
  BY <1>b, <1>c, ItemKept DEF MailIInv, AcceptedWasTaken
<1>6. SendBudget'
  <2>. SUFFICES ASSUME NEW m \in Message
                PROVE  accepted'[m] + Cardinality(Carriers(m)') + Ready(m)'
                         <= 1 + consents'[m] + reclaimed'[m]
    BY DEF SendBudget
  <2>1. accepted[m] + Cardinality(Carriers(m)) + Ready(m) <= 1 + consents[m] + reclaimed[m]
    BY DEF MailIInv, SendBudget
  <2>2. /\ accepted[m] \in Nat /\ consents[m] \in Nat /\ reclaimed[m] \in Nat
        /\ accepted'[m] = accepted[m] /\ consents'[m] = consents[m]
    BY <1>b DEF MailIInv, TypeOK
  <2>3. Cardinality(Carriers(m)) \in Nat /\ IsFiniteSet(Carriers(m))
    BY CarriersCounted
  <2>4. \A v \in Worker : v # w => (v \in Carriers(m)' <=> v \in Carriers(m))
    BY <1>c, ItemKept DEF Carriers
  <2>5. Carriers(m)' \subseteq Worker /\ (w \in Carriers(m)' => m \in mine)
    BY <1>c DEF Carriers
  <2>. HIDE DEF Carriers
  <2>6. CASE m \in mine
    <3>1. Carriers(m)' \subseteq Carriers(m) \cup {w}
      BY <2>4, <2>5
    <3>2. /\ Cardinality(Carriers(m)') \in Nat
          /\ Cardinality(Carriers(m)') <= Cardinality(Carriers(m)) + 1
      BY <2>3, <3>1, CountGrows
    <3>3. Ready(m)' = 0
      BY <1>b, <2>6 DEF Ready
    <3>4. IF row[m] = "sending" THEN reclaimed'[m] = reclaimed[m] + 1 /\ Ready(m) = 0
                                ELSE reclaimed'[m] = reclaimed[m] /\ Ready(m) = 1
      BY <1>a, <1>b, <2>6 DEF Ready
    <3>5. CASE row[m] = "sending"
      BY <2>1, <2>2, <2>3, <3>2, <3>3, <3>4, <3>5
    <3>6. CASE row[m] # "sending"
      BY <2>1, <2>2, <2>3, <3>2, <3>3, <3>4, <3>6
    <3>. QED  BY <3>5, <3>6
  <2>7. CASE m \notin mine
    <3>1. Carriers(m)' \subseteq Carriers(m)
      BY <2>4, <2>5, <2>7
    <3>2. /\ Cardinality(Carriers(m)') \in Nat
          /\ Cardinality(Carriers(m)') <= Cardinality(Carriers(m))
      BY <2>3, <3>1, FS_Subset, FS_CardinalityType
    <3>3. /\ Ready(m)' \in Nat /\ Ready(m) \in Nat /\ Ready(m)' <= Ready(m)
          /\ reclaimed'[m] = reclaimed[m]
      BY <1>b, <2>7 DEF Ready
    <3>. QED  BY <2>1, <2>2, <2>3, <3>2, <3>3
  <2>. QED  BY <2>6, <2>7
<1>. QED  BY <1>1, <1>2, <1>3, <1>4, <1>5, <1>6 DEF MailIInv

\* A pass begins with one of its messages.
LEMMA BeginKeeps ==
    ASSUME MailIInv, NEW w \in Worker, Begin(w)
    PROVE  MailIInv'
<1>a. /\ at'[w] \in {"smtp", "refused"} /\ at[w] \notin {"idle", "recovered"}
      /\ \A v \in Worker : v # w => at'[v] = at[v]
      /\ UNCHANGED batch
  BY DEF Begin, MailIInv, TypeOK
<1>b. \A v \in Worker : Item(v)' = Item(v)
  BY <1>a, ItemKept
<1>c. Item(w) \in batch[w] /\ Item(w) \in Message
  BY <1>a, ItemInBatch DEF MailIInv
<1>1. TypeOK'
  BY DEF Begin, rowVars, Step, MailIInv, TypeOK
<1>2. PassesHold'
  BY DEF Begin, MailIInv, PassesHold
<1>3. TriesCounted'
  BY DEF Begin, rowVars, MailIInv, TriesCounted
<1>4. SentWasAccepted'
  BY DEF Begin, rowVars, MailIInv, SentWasAccepted
<1>5. AcceptedWasTaken'
  BY <1>a, <1>b DEF Begin, MailIInv, AcceptedWasTaken
<1>6. SendBudget'
  <2>1. \A o \in Message : Ready(o)' <= Ready(o) + (consents'[o] - consents[o])
    BY DEF Begin, Ready, rowVars, MailIInv, TypeOK
  <2>2. \A o \in Message : Carriers(o)' \subseteq Carriers(o)
    BY <1>a, <1>b DEF Carriers, Begin
  <2>. QED  BY <1>1, <2>1, <2>2, BudgetKept DEF Begin
<1>. QED  BY <1>1, <1>2, <1>3, <1>4, <1>5, <1>6 DEF MailIInv

\* A pass fails before it has spoken to the server.
LEMMA BeginFailsKeeps ==
    ASSUME MailIInv, NEW w \in Worker, BeginFails(w)
    PROVE  MailIInv'
<1>a. /\ at'[w] \in {"refused"} /\ at[w] \notin {"idle", "recovered"}
      /\ \A v \in Worker : v # w => at'[v] = at[v]
      /\ UNCHANGED batch
  BY DEF BeginFails, MailIInv, TypeOK
<1>b. \A v \in Worker : Item(v)' = Item(v)
  BY <1>a, ItemKept
<1>c. Item(w) \in batch[w] /\ Item(w) \in Message
  BY <1>a, ItemInBatch DEF MailIInv
<1>1. TypeOK'
  BY DEF BeginFails, rowVars, Step, Fault, MailIInv, TypeOK
<1>2. PassesHold'
  BY DEF BeginFails, MailIInv, PassesHold
<1>3. TriesCounted'
  BY DEF BeginFails, rowVars, MailIInv, TriesCounted
<1>4. SentWasAccepted'
  BY DEF BeginFails, rowVars, MailIInv, SentWasAccepted
<1>5. AcceptedWasTaken'
  BY <1>a, <1>b DEF BeginFails, MailIInv, AcceptedWasTaken
<1>6. SendBudget'
  <2>1. \A o \in Message : Ready(o)' <= Ready(o) + (consents'[o] - consents[o])
    BY DEF BeginFails, Ready, rowVars, MailIInv, TypeOK
  <2>2. \A o \in Message : Carriers(o)' \subseteq Carriers(o)
    BY <1>a, <1>b DEF Carriers, BeginFails
  <2>. QED  BY <1>1, <2>1, <2>2, BudgetKept DEF BeginFails
<1>. QED  BY <1>1, <1>2, <1>3, <1>4, <1>5, <1>6 DEF MailIInv

\* The server refuses a message.
LEMMA ServerRefusesKeeps ==
    ASSUME MailIInv, NEW w \in Worker, ServerRefuses(w)
    PROVE  MailIInv'
<1>a. /\ at'[w] \in {"refused"} /\ at[w] \notin {"idle", "recovered"}
      /\ \A v \in Worker : v # w => at'[v] = at[v]
      /\ UNCHANGED batch
  BY DEF ServerRefuses, MailIInv, TypeOK
<1>b. \A v \in Worker : Item(v)' = Item(v)
  BY <1>a, ItemKept
<1>c. Item(w) \in batch[w] /\ Item(w) \in Message
  BY <1>a, ItemInBatch DEF MailIInv
<1>1. TypeOK'
  BY DEF ServerRefuses, rowVars, Step, MailIInv, TypeOK
<1>2. PassesHold'
  BY DEF ServerRefuses, MailIInv, PassesHold
<1>3. TriesCounted'
  BY DEF ServerRefuses, rowVars, MailIInv, TriesCounted
<1>4. SentWasAccepted'
  BY DEF ServerRefuses, rowVars, MailIInv, SentWasAccepted
<1>5. AcceptedWasTaken'
  BY <1>a, <1>b DEF ServerRefuses, MailIInv, AcceptedWasTaken
<1>6. SendBudget'
  <2>1. \A o \in Message : Ready(o)' <= Ready(o) + (consents'[o] - consents[o])
    BY DEF ServerRefuses, Ready, rowVars, MailIInv, TypeOK
  <2>2. \A o \in Message : Carriers(o)' \subseteq Carriers(o)
    BY <1>a, <1>b DEF Carriers, ServerRefuses
  <2>. QED  BY <1>1, <2>1, <2>2, BudgetKept DEF ServerRefuses
<1>. QED  BY <1>1, <1>2, <1>3, <1>4, <1>5, <1>6 DEF MailIInv

\* The server accepts a message: the worker that sent it carried it, so the budget
\* had room for it.
LEMMA ServerAcceptsKeeps ==
    ASSUME MailIInv, NEW w \in Worker, ServerAccepts(w)
    PROVE  MailIInv'
<1>a. /\ at'[w] \in {"accepted"} /\ at[w] \notin {"idle", "recovered"}
      /\ \A v \in Worker : v # w => at'[v] = at[v]
      /\ UNCHANGED batch
  BY DEF ServerAccepts, MailIInv, TypeOK
<1>b. \A v \in Worker : Item(v)' = Item(v)
  BY <1>a, ItemKept
<1>c. Item(w) \in batch[w] /\ Item(w) \in Message
  BY <1>a, ItemInBatch DEF MailIInv
<1>d. \A m \in Message : accepted'[m] \in Nat /\ accepted'[m] >= accepted[m]
  BY DEF ServerAccepts, Taken, MailIInv, TypeOK
<1>1. TypeOK'
  <2>1. accepted' \in [Message -> Nat]
    BY <1>c DEF ServerAccepts, Taken, MailIInv, TypeOK
  <2>2. at' \in [Worker -> Step]
    BY DEF ServerAccepts, MailIInv, TypeOK, Step
  <2>. QED  BY <2>1, <2>2 DEF ServerAccepts, rowVars, MailIInv, TypeOK
<1>2. PassesHold'
  BY DEF ServerAccepts, MailIInv, PassesHold
<1>3. TriesCounted'
  BY DEF ServerAccepts, rowVars, MailIInv, TriesCounted
<1>4. SentWasAccepted'
  BY <1>d DEF ServerAccepts, rowVars, MailIInv, TypeOK, SentWasAccepted
<1>5. AcceptedWasTaken'
  <2>. SUFFICES ASSUME NEW v \in Worker, at'[v] = "accepted"
                PROVE  accepted'[Item(v)] > 0
    BY <1>b DEF AcceptedWasTaken
  <2>1. CASE v = w
    <3>1. accepted'[Item(w)] = accepted[Item(w)] + 1 /\ accepted[Item(w)] \in Nat
      BY <1>c DEF ServerAccepts, Taken, MailIInv, TypeOK
    <3>. QED  BY <2>1, <3>1
  <2>2. CASE v # w
    <3>1. at[v] = "accepted" /\ accepted[Item(v)] > 0
      BY <1>a, <2>2 DEF MailIInv, AcceptedWasTaken
    <3>2. Item(v) \in Message
      BY <3>1, ItemInBatch DEF MailIInv
    <3>3. accepted[Item(v)] \in Nat
      BY <3>2 DEF MailIInv, TypeOK
    <3>4. accepted'[Item(v)] \in Nat /\ accepted'[Item(v)] >= accepted[Item(v)]
      BY <1>d, <3>2
    <3>. QED  BY <3>1, <3>3, <3>4
  <2>. QED  BY <2>1, <2>2
<1>6. SendBudget'
  <2>. SUFFICES ASSUME NEW m \in Message
                PROVE  accepted'[m] + Cardinality(Carriers(m)') + Ready(m)'
                         <= 1 + consents'[m] + reclaimed'[m]
    BY DEF SendBudget
  <2>1. accepted[m] + Cardinality(Carriers(m)) + Ready(m) <= 1 + consents[m] + reclaimed[m]
    BY DEF MailIInv, SendBudget
  <2>2. /\ accepted[m] \in Nat /\ consents[m] \in Nat /\ reclaimed[m] \in Nat
        /\ consents'[m] = consents[m] /\ reclaimed'[m] = reclaimed[m]
        /\ Ready(m) \in Nat /\ Ready(m)' = Ready(m)
    BY DEF ServerAccepts, rowVars, Ready, MailIInv, TypeOK
  <2>3. Cardinality(Carriers(m)) \in Nat /\ IsFiniteSet(Carriers(m))
    BY CarriersCounted
  <2>4. \A v \in Worker : v # w => (v \in Carriers(m)' <=> v \in Carriers(m))
    BY <1>a, <1>b DEF Carriers
  <2>5. Carriers(m)' \subseteq Worker /\ (w \in Carriers(m)' => m # Item(w) /\ m \in batch[w])
    BY <1>a, <1>b DEF Carriers
  <2>6. m \in batch[w] => w \in Carriers(m)
    BY DEF ServerAccepts, Carriers
  <2>. HIDE DEF Carriers
  <2>7. CASE m = Item(w)
    <3>1. w \in Carriers(m) /\ Carriers(m)' \subseteq Carriers(m) \ {w}
      BY <1>c, <2>4, <2>5, <2>6, <2>7
    <3>2. /\ Cardinality(Carriers(m)') \in Nat
          /\ Cardinality(Carriers(m)') <= Cardinality(Carriers(m)) - 1
      BY <2>3, <3>1, CountShrinks
    <3>3. accepted'[m] \in Nat /\ accepted'[m] \in {accepted[m], accepted[m] + 1}
      BY <1>c, <2>7 DEF ServerAccepts, Taken, MailIInv, TypeOK
    <3>. QED  BY <2>1, <2>2, <2>3, <3>2, <3>3
  <2>8. CASE m # Item(w)
    <3>1. Carriers(m)' \subseteq Carriers(m)
      BY <2>4, <2>5, <2>6, <2>8
    <3>2. /\ Cardinality(Carriers(m)') \in Nat
          /\ Cardinality(Carriers(m)') <= Cardinality(Carriers(m))
      BY <2>3, <3>1, FS_Subset, FS_CardinalityType
    <3>3. accepted'[m] = accepted[m]
      BY <2>8 DEF ServerAccepts, Taken, MailIInv, TypeOK
    <3>. QED  BY <2>1, <2>2, <2>3, <3>2, <3>3
  <2>. QED  BY <2>7, <2>8
<1>. QED  BY <1>1, <1>2, <1>3, <1>4, <1>5, <1>6 DEF MailIInv

\* The server falls silent, having accepted the message or not.
LEMMA ServerFallsSilentKeeps ==
    ASSUME MailIInv, NEW w \in Worker, ServerFallsSilent(w)
    PROVE  MailIInv'
<1>a. /\ at'[w] \in {"unsure"} /\ at[w] \notin {"idle", "recovered"}
      /\ \A v \in Worker : v # w => at'[v] = at[v]
      /\ UNCHANGED batch
  BY DEF ServerFallsSilent, MailIInv, TypeOK
<1>b. \A v \in Worker : Item(v)' = Item(v)
  BY <1>a, ItemKept
<1>c. Item(w) \in batch[w] /\ Item(w) \in Message
  BY <1>a, ItemInBatch DEF MailIInv
<1>d. \A m \in Message : accepted'[m] \in Nat /\ accepted'[m] >= accepted[m]
  BY DEF ServerFallsSilent, Taken, MailIInv, TypeOK
<1>1. TypeOK'
  <2>1. accepted' \in [Message -> Nat]
    BY DEF ServerFallsSilent, Taken, MailIInv, TypeOK
  <2>2. at' \in [Worker -> Step]
    BY DEF ServerFallsSilent, MailIInv, TypeOK, Step
  <2>. QED  BY <2>1, <2>2 DEF ServerFallsSilent, rowVars, MailIInv, TypeOK
<1>2. PassesHold'
  BY DEF ServerFallsSilent, MailIInv, PassesHold
<1>3. TriesCounted'
  BY DEF ServerFallsSilent, rowVars, MailIInv, TriesCounted
<1>4. SentWasAccepted'
  BY <1>d DEF ServerFallsSilent, rowVars, MailIInv, TypeOK, SentWasAccepted
<1>5. AcceptedWasTaken'
  <2>. SUFFICES ASSUME NEW v \in Worker, at'[v] = "accepted"
                PROVE  accepted'[Item(v)] > 0
    BY <1>b DEF AcceptedWasTaken
  <2>1. CASE v = w
    BY <1>a, <1>c, <1>d, <2>1 DEF ServerFallsSilent, Taken, MailIInv, TypeOK
  <2>2. CASE v # w
    <3>1. at[v] = "accepted" /\ accepted[Item(v)] > 0
      BY <1>a, <2>2 DEF MailIInv, AcceptedWasTaken
    <3>2. Item(v) \in Message
      BY <3>1, ItemInBatch DEF MailIInv
    <3>3. accepted[Item(v)] \in Nat
      BY <3>2 DEF MailIInv, TypeOK
    <3>4. accepted'[Item(v)] \in Nat /\ accepted'[Item(v)] >= accepted[Item(v)]
      BY <1>d, <3>2
    <3>. QED  BY <3>1, <3>3, <3>4
  <2>. QED  BY <2>1, <2>2
<1>6. SendBudget'
  <2>. SUFFICES ASSUME NEW m \in Message
                PROVE  accepted'[m] + Cardinality(Carriers(m)') + Ready(m)'
                         <= 1 + consents'[m] + reclaimed'[m]
    BY DEF SendBudget
  <2>1. accepted[m] + Cardinality(Carriers(m)) + Ready(m) <= 1 + consents[m] + reclaimed[m]
    BY DEF MailIInv, SendBudget
  <2>2. /\ accepted[m] \in Nat /\ consents[m] \in Nat /\ reclaimed[m] \in Nat
        /\ consents'[m] = consents[m] /\ reclaimed'[m] = reclaimed[m]
        /\ Ready(m) \in Nat /\ Ready(m)' = Ready(m)
    BY DEF ServerFallsSilent, rowVars, Ready, MailIInv, TypeOK
  <2>3. Cardinality(Carriers(m)) \in Nat /\ IsFiniteSet(Carriers(m))
    BY CarriersCounted
  <2>4. \A v \in Worker : v # w => (v \in Carriers(m)' <=> v \in Carriers(m))
    BY <1>a, <1>b DEF Carriers
  <2>5. Carriers(m)' \subseteq Worker /\ (w \in Carriers(m)' => m # Item(w) /\ m \in batch[w])
    BY <1>a, <1>b DEF Carriers
  <2>6. m \in batch[w] => w \in Carriers(m)
    BY DEF ServerFallsSilent, Carriers
  <2>. HIDE DEF Carriers
  <2>7. CASE m = Item(w)
    <3>1. w \in Carriers(m) /\ Carriers(m)' \subseteq Carriers(m) \ {w}
      BY <1>c, <2>4, <2>5, <2>6, <2>7
    <3>2. /\ Cardinality(Carriers(m)') \in Nat
          /\ Cardinality(Carriers(m)') <= Cardinality(Carriers(m)) - 1
      BY <2>3, <3>1, CountShrinks
    <3>3. accepted'[m] \in Nat /\ accepted'[m] \in {accepted[m], accepted[m] + 1}
      BY <1>c, <2>7 DEF ServerFallsSilent, Taken, MailIInv, TypeOK
    <3>. QED  BY <2>1, <2>2, <2>3, <3>2, <3>3
  <2>8. CASE m # Item(w)
    <3>1. Carriers(m)' \subseteq Carriers(m)
      BY <2>4, <2>5, <2>6, <2>8
    <3>2. /\ Cardinality(Carriers(m)') \in Nat
          /\ Cardinality(Carriers(m)') <= Cardinality(Carriers(m))
      BY <2>3, <3>1, FS_Subset, FS_CardinalityType
    <3>3. accepted'[m] = accepted[m]
      BY <2>8 DEF ServerFallsSilent, Taken, MailIInv, TypeOK
    <3>. QED  BY <2>1, <2>2, <2>3, <3>2, <3>3
  <2>. QED  BY <2>7, <2>8
<1>. QED  BY <1>1, <1>2, <1>3, <1>4, <1>5, <1>6 DEF MailIInv

\* The acceptance is recorded.
LEMMA RecordSentKeeps ==
    ASSUME MailIInv, NEW w \in Worker, RecordSent(w)
    PROVE  MailIInv'
<1>a. Item(w) \in batch[w] /\ Item(w) \in Message
  BY ItemInBatch DEF RecordSent, MailIInv
<1>b. /\ batch'[w] = batch[w] \ {Item(w)}
      /\ at'[w] = IF batch[w] = {Item(w)} THEN "idle" ELSE "next"
      /\ \A v \in Worker : v # w => at'[v] = at[v] /\ batch'[v] = batch[v]
      /\ at' \in [Worker -> Step] /\ batch' \in [Worker -> SUBSET Message]
  BY DEF RecordSent, Done, MailIInv, TypeOK, Step
<1>c. \A v \in Worker : v # w => Item(v)' = Item(v)
  BY <1>b, ItemKept
<1>1. TypeOK'
  BY DEF RecordSent, Done, rowVars, Status, Step, MailIInv, TypeOK
<1>2. PassesHold'
  <2>1. batch'[w] = {} <=> batch[w] = {Item(w)}
    BY <1>a, <1>b
  <2>. QED  BY <1>b, <2>1 DEF MailIInv, PassesHold
<1>3. TriesCounted'
  BY <1>b DEF RecordSent, rowVars, MailIInv, TriesCounted
<1>4. SentWasAccepted'
  BY DEF RecordSent, MailIInv, TypeOK, PassesHold, TriesCounted, SentWasAccepted,
      AcceptedWasTaken
<1>5. AcceptedWasTaken'
  BY <1>b, <1>c DEF RecordSent, MailIInv, AcceptedWasTaken
<1>6. SendBudget'
  <2>1. \A o \in Message : Ready(o)' <= Ready(o) + (consents'[o] - consents[o])
    BY DEF RecordSent, Ready, rowVars, MailIInv, TypeOK
  <2>2. \A o \in Message : Carriers(o)' \subseteq Carriers(o)
    BY DoneCarriers DEF RecordSent, MailIInv
  <2>. QED  BY <1>1, <2>1, <2>2, BudgetKept DEF RecordSent
<1>. QED  BY <1>1, <1>2, <1>3, <1>4, <1>5, <1>6 DEF MailIInv

\* The acceptance cannot be recorded: the row stays as it is, in sending.
LEMMA RecordSentFailsKeeps ==
    ASSUME MailIInv, NEW w \in Worker, RecordSentFails(w)
    PROVE  MailIInv'
<1>a. Item(w) \in batch[w] /\ Item(w) \in Message
  BY ItemInBatch DEF RecordSentFails, MailIInv
<1>b. /\ batch'[w] = batch[w] \ {Item(w)}
      /\ at'[w] = IF batch[w] = {Item(w)} THEN "idle" ELSE "next"
      /\ \A v \in Worker : v # w => at'[v] = at[v] /\ batch'[v] = batch[v]
      /\ at' \in [Worker -> Step] /\ batch' \in [Worker -> SUBSET Message]
  BY DEF RecordSentFails, Done, MailIInv, TypeOK, Step
<1>c. \A v \in Worker : v # w => Item(v)' = Item(v)
  BY <1>b, ItemKept
<1>1. TypeOK'
  BY DEF RecordSentFails, Done, rowVars, Step, Fault, MailIInv, TypeOK
<1>2. PassesHold'
  <2>1. batch'[w] = {} <=> batch[w] = {Item(w)}
    BY <1>a, <1>b
  <2>. QED  BY <1>b, <2>1 DEF MailIInv, PassesHold
<1>3. TriesCounted'
  BY <1>b DEF RecordSentFails, rowVars, MailIInv, TriesCounted
<1>4. SentWasAccepted'
  BY DEF RecordSentFails, rowVars, MailIInv, SentWasAccepted
<1>5. AcceptedWasTaken'
  BY <1>b, <1>c DEF RecordSentFails, MailIInv, AcceptedWasTaken
<1>6. SendBudget'
  <2>1. \A o \in Message : Ready(o)' <= Ready(o) + (consents'[o] - consents[o])
    BY DEF RecordSentFails, Ready, rowVars, MailIInv, TypeOK
  <2>2. \A o \in Message : Carriers(o)' \subseteq Carriers(o)
    BY DoneCarriers DEF RecordSentFails, MailIInv
  <2>. QED  BY <1>1, <2>1, <2>2, BudgetKept DEF RecordSentFails
<1>. QED  BY <1>1, <1>2, <1>3, <1>4, <1>5, <1>6 DEF MailIInv

\* An outcome that is not known is recorded as such.
LEMMA RecordUnsureKeeps ==
    ASSUME MailIInv, NEW w \in Worker, RecordUnsure(w)
    PROVE  MailIInv'
<1>a. Item(w) \in batch[w] /\ Item(w) \in Message
  BY ItemInBatch DEF RecordUnsure, MailIInv
<1>b. /\ batch'[w] = batch[w] \ {Item(w)}
      /\ at'[w] = IF batch[w] = {Item(w)} THEN "idle" ELSE "next"
      /\ \A v \in Worker : v # w => at'[v] = at[v] /\ batch'[v] = batch[v]
      /\ at' \in [Worker -> Step] /\ batch' \in [Worker -> SUBSET Message]
  BY DEF RecordUnsure, Done, MailIInv, TypeOK, Step
<1>c. \A v \in Worker : v # w => Item(v)' = Item(v)
  BY <1>b, ItemKept
<1>1. TypeOK'
  BY DEF RecordUnsure, Done, rowVars, Status, Step, MailIInv, TypeOK
<1>2. PassesHold'
  <2>1. batch'[w] = {} <=> batch[w] = {Item(w)}
    BY <1>a, <1>b
  <2>. QED  BY <1>b, <2>1 DEF MailIInv, PassesHold
<1>3. TriesCounted'
  BY <1>b DEF RecordUnsure, rowVars, MailIInv, TriesCounted
<1>4. SentWasAccepted'
  BY DEF RecordUnsure, rowVars, MailIInv, SentWasAccepted
<1>5. AcceptedWasTaken'
  BY <1>b, <1>c DEF RecordUnsure, MailIInv, AcceptedWasTaken
<1>6. SendBudget'
  <2>1. \A o \in Message : Ready(o)' <= Ready(o) + (consents'[o] - consents[o])
    BY DEF RecordUnsure, Ready, rowVars, MailIInv, TypeOK
  <2>2. \A o \in Message : Carriers(o)' \subseteq Carriers(o)
    BY DoneCarriers DEF RecordUnsure, MailIInv
  <2>. QED  BY <1>1, <2>1, <2>2, BudgetKept DEF RecordUnsure
<1>. QED  BY <1>1, <1>2, <1>3, <1>4, <1>5, <1>6 DEF MailIInv

\* A refusal is recorded, whatever became of the row meanwhile.
LEMMA RecordFailedKeeps ==
    ASSUME MailIInv, NEW w \in Worker, RecordFailed(w)
    PROVE  MailIInv'
<1>a. Item(w) \in batch[w] /\ Item(w) \in Message
  BY ItemInBatch DEF RecordFailed, MailIInv
<1>b. /\ batch'[w] = batch[w] \ {Item(w)}
      /\ at'[w] = IF batch[w] = {Item(w)} THEN "idle" ELSE "next"
      /\ \A v \in Worker : v # w => at'[v] = at[v] /\ batch'[v] = batch[v]
      /\ at' \in [Worker -> Step] /\ batch' \in [Worker -> SUBSET Message]
  BY DEF RecordFailed, Done, MailIInv, TypeOK, Step
<1>c. \A v \in Worker : v # w => Item(v)' = Item(v)
  BY <1>b, ItemKept
<1>1. TypeOK'
  <2>1. NextTry(Item(w)) \in Nat \cup {Never}
    <3>1. tries[Item(w)] \in Nat /\ tries[Item(w)] > 0
      BY <1>a DEF MailIInv, TypeOK, TriesCounted
    <3>. QED  BY <3>1, MailAssumption DEF NextTry
  <2>2. row' \in [Message -> Status] /\ wait' \in [Message -> Nat \cup {Never}]
    BY <2>1 DEF RecordFailed, MailIInv, TypeOK, Status
  <2>. QED  BY <1>b, <2>2 DEF RecordFailed, MailIInv, TypeOK
<1>2. PassesHold'
  <2>1. batch'[w] = {} <=> batch[w] = {Item(w)}
    BY <1>a, <1>b
  <2>. QED  BY <1>b, <2>1 DEF MailIInv, PassesHold
<1>3. TriesCounted'
  BY <1>b DEF RecordFailed, rowVars, MailIInv, TriesCounted
<1>4. SentWasAccepted'
  BY DEF RecordFailed, rowVars, MailIInv, SentWasAccepted
<1>5. AcceptedWasTaken'
  BY <1>b, <1>c DEF RecordFailed, MailIInv, AcceptedWasTaken
<1>6. SendBudget'
  <2>. SUFFICES ASSUME NEW m \in Message
                PROVE  accepted'[m] + Cardinality(Carriers(m)') + Ready(m)'
                         <= 1 + consents'[m] + reclaimed'[m]
    BY DEF SendBudget
  <2>1. accepted[m] + Cardinality(Carriers(m)) + Ready(m) <= 1 + consents[m] + reclaimed[m]
    BY DEF MailIInv, SendBudget
  <2>2. /\ accepted[m] \in Nat /\ consents[m] \in Nat /\ reclaimed[m] \in Nat
        /\ accepted'[m] = accepted[m] /\ consents'[m] = consents[m]
        /\ reclaimed'[m] = reclaimed[m]
    BY DEF RecordFailed, MailIInv, TypeOK
  <2>3. Cardinality(Carriers(m)) \in Nat /\ IsFiniteSet(Carriers(m))
    BY CarriersCounted
  <2>4. Done(w) /\ at[w] = "refused"
    BY DEF RecordFailed
  <2>. HIDE DEF Carriers
  <2>5. CASE m = Item(w)
    <3>1. w \in Carriers(m)
      BY <1>a, <2>4, <2>5 DEF Carriers
    <3>2. Carriers(m)' \subseteq Carriers(m) \ {w}
      BY <2>4, <2>5, DoneCarriers DEF MailIInv
    <3>3. /\ Cardinality(Carriers(m)') \in Nat
          /\ Cardinality(Carriers(m)') <= Cardinality(Carriers(m)) - 1
      BY <2>3, <3>1, <3>2, CountShrinks
    <3>4. Ready(m) \in Nat /\ Ready(m)' \in Nat /\ Ready(m)' <= 1
      BY DEF Ready
    <3>. QED  BY <2>1, <2>2, <2>3, <3>3, <3>4
  <2>6. CASE m # Item(w)
    <3>1. Carriers(m)' \subseteq Carriers(m)
      BY <2>4, <2>6, DoneCarriers DEF MailIInv
    <3>2. /\ Cardinality(Carriers(m)') \in Nat
          /\ Cardinality(Carriers(m)') <= Cardinality(Carriers(m))
      BY <2>3, <3>1, FS_Subset, FS_CardinalityType
    <3>3. Ready(m) \in 0..1 /\ Ready(m)' = Ready(m)
      BY <2>6 DEF Ready, RecordFailed, MailIInv, TypeOK
    <3>. QED  BY <2>1, <2>2, <2>3, <3>2, <3>3
  <2>. QED  BY <2>5, <2>6
<1>. QED  BY <1>1, <1>2, <1>3, <1>4, <1>5, <1>6 DEF MailIInv

\* The outcome cannot be recorded, and the pass ends.
LEMMA RecordFailsKeeps ==
    ASSUME MailIInv, NEW w \in Worker, RecordFails(w)
    PROVE  MailIInv'
<1>1. TypeOK'
  BY DEF RecordFails, Abandon, Fault, rowVars, Step, MailIInv, TypeOK
<1>2. PassesHold'
  BY DEF RecordFails, Abandon, Fault, Step, MailIInv, TypeOK, PassesHold
<1>3. TriesCounted'
  BY DEF RecordFails, Abandon, Fault, rowVars, Step, MailIInv, TriesCounted
<1>4. SentWasAccepted'
  BY DEF RecordFails, rowVars, MailIInv, SentWasAccepted
<1>5. AcceptedWasTaken'
  <2>1. \A v \in Worker : v = w \/ (at'[v] = at[v] /\ Item(v)' = Item(v))
    BY ItemKept DEF RecordFails, Abandon, MailIInv, TypeOK
  <2>2. at'[w] = "idle"
    BY DEF RecordFails, Abandon, MailIInv, TypeOK
  <2>. QED  BY <2>1, <2>2 DEF RecordFails, MailIInv, AcceptedWasTaken
<1>6. SendBudget'
  <2>1. \A o \in Message : Ready(o)' <= Ready(o) + (consents'[o] - consents[o])
    BY DEF RecordFails, Ready, rowVars, MailIInv, TypeOK
  <2>2. \A o \in Message : Carriers(o)' \subseteq Carriers(o)
    <3>1. \A v \in Worker : v # w => at'[v] = at[v] /\ batch'[v] = batch[v]
      BY DEF RecordFails, Abandon, MailIInv, TypeOK
    <3>2. batch'[w] = {}
      BY DEF RecordFails, Abandon, MailIInv, TypeOK
    <3>. QED  BY <3>1, <3>2, ItemKept DEF Carriers
  <2>. QED  BY <1>1, <2>1, <2>2, BudgetKept DEF RecordFails
<1>. QED  BY <1>1, <1>2, <1>3, <1>4, <1>5, <1>6 DEF MailIInv

\* The process ends: its passes are gone, their rows stay as they are.
LEMMA CrashKeeps ==
    ASSUME MailIInv, Crash
    PROVE  MailIInv'
<1>1. TypeOK'
  BY DEF Crash, Fault, rowVars, Step, MailIInv, TypeOK
<1>2. PassesHold'
  BY DEF Crash, MailIInv, PassesHold
<1>3. TriesCounted'
  BY DEF Crash, rowVars, MailIInv, TriesCounted
<1>4. SentWasAccepted'
  BY DEF Crash, rowVars, MailIInv, SentWasAccepted
<1>5. AcceptedWasTaken'
  BY DEF Crash, MailIInv, AcceptedWasTaken
<1>6. SendBudget'
  <2>1. \A o \in Message : Ready(o)' <= Ready(o) + (consents'[o] - consents[o])
    BY DEF Crash, Ready, rowVars, MailIInv, TypeOK
  <2>2. \A o \in Message : Carriers(o)' = {}
    BY DEF Crash, Carriers
  <2>. QED  BY <1>1, <2>1, <2>2, BudgetKept DEF Crash
<1>. QED  BY <1>1, <1>2, <1>3, <1>4, <1>5, <1>6 DEF MailIInv
-----------------------------------------------------------------------------
(* The invariants of the mail.                                              *)

\* The invariant holds at first.
LEMMA MailInit == Init => MailIInv
<1>. SUFFICES ASSUME Init PROVE MailIInv
  OBVIOUS
<1>1. TypeOK
  BY DEF Init, TypeOK, Status, Step
<1>2. PassesHold /\ TriesCounted /\ SentWasAccepted /\ AcceptedWasTaken
  BY DEF Init, PassesHold, TriesCounted, SentWasAccepted, AcceptedWasTaken
<1>3. SendBudget
  <2>1. \A m \in Message : Carriers(m) = {}
    BY DEF Init, Carriers
  <2>2. \A m \in Message : accepted[m] = 0 /\ consents[m] = 0 /\ reclaimed[m] = 0 /\ Ready(m) = 1
    BY DEF Init, Ready
  <2>. HIDE DEF Carriers
  <2>3. \A m \in Message : Cardinality(Carriers(m)) = 0
    BY <2>1, FS_EmptySet
  <2>. QED  BY <2>2, <2>3 DEF SendBudget
<1>. QED  BY <1>1, <1>2, <1>3 DEF MailIInv

\* Every step keeps it.
LEMMA MailStep == MailIInv /\ [Next]_vars => MailIInv'
<1>. SUFFICES ASSUME MailIInv, [Next]_vars PROVE MailIInv'
  OBVIOUS
<1>1. ASSUME NEW m \in Message, RowStep(m) PROVE MailIInv'
  BY <1>1, QueueKeeps, CancelKeeps, RetryKeeps, AdminRetryKeeps, WithholdKeeps,
      SupersedeKeeps, RotateKeeps
  DEF RowStep
<1>2. ASSUME NEW w \in Worker, WorkerStep(w) PROVE MailIInv'
  BY <1>2, RecoverKeeps, ClaimKeeps, BeginKeeps, ServerAcceptsKeeps, ServerRefusesKeeps,
      ServerFallsSilentKeeps, RecordSentKeeps, RecordUnsureKeeps, RecordFailedKeeps
  DEF WorkerStep, Smtp, Record
<1>3. ASSUME NEW w \in Worker, RecordFault(w) PROVE MailIInv'
  BY <1>3, BeginFailsKeeps, RecordSentFailsKeeps, RecordFailsKeeps DEF RecordFault
<1>4. CASE UNCHANGED vars
  <2>1. TypeOK' /\ PassesHold' /\ TriesCounted' /\ SentWasAccepted'
    BY <1>4
    DEF vars, rowVars, workerVars, MailIInv, TypeOK, PassesHold, TriesCounted,
        SentWasAccepted
  <2>2. AcceptedWasTaken'
    BY <1>4, ItemKept DEF vars, workerVars, MailIInv, AcceptedWasTaken
  <2>3. SendBudget'
    <3>1. \A m \in Message : Carriers(m)' \subseteq Carriers(m)
      BY <1>4, CarriersAs DEF vars
    <3>2. \A m \in Message : Ready(m)' <= Ready(m) + (consents'[m] - consents[m])
      BY <1>4 DEF vars, rowVars, Ready, MailIInv, TypeOK
    <3>. QED  BY <1>4, <2>1, <3>1, <3>2, BudgetKept DEF vars
  <2>. QED  BY <2>1, <2>2, <2>3 DEF MailIInv
<1>. QED  BY <1>1, <1>2, <1>3, <1>4, CrashKeeps, TickKeeps DEF Next

\* The rows and passes with what the proof needs, in every reachable state.
THEOREM InnerInvariant == Spec => []MailIInv
BY MailInit, MailStep, PTL DEF Spec

\* A message the server accepted is sent again only when an operator asked for it, or when
\* a claim took a row that another pass was still sending; it is sent only if it was
\* accepted, and what a pass carries has had its attempt counted.
THEOREM MailCorrect == Spec => []MailInv
<1>1. MailIInv => MailInv
  <2>. SUFFICES ASSUME MailIInv PROVE MailInv
    OBVIOUS
  <2>1. NoBlindResend
    <3>. SUFFICES ASSUME NEW m \in Message
                  PROVE  accepted[m] <= 1 + consents[m] + reclaimed[m]
      BY DEF NoBlindResend
    <3>1. accepted[m] + Cardinality(Carriers(m)) + Ready(m) <= 1 + consents[m] + reclaimed[m]
      BY DEF MailIInv, SendBudget
    <3>2. Cardinality(Carriers(m)) \in Nat /\ Ready(m) \in Nat
      BY CarriersCounted DEF Ready
    <3>3. accepted[m] \in Nat /\ consents[m] \in Nat /\ reclaimed[m] \in Nat
      BY DEF MailIInv, TypeOK
    <3>. QED  BY <3>1, <3>2, <3>3
  <2>. QED  BY <2>1 DEF MailIInv, MailInv
<1>. QED  BY InnerInvariant, <1>1, PTL
-----------------------------------------------------------------------------
(* What comes back.                                                         *)

\* A message that is uncertain, cancelled or sent becomes claimable again only by an
\* operator's retry, or by the pass that still carries it and is told of a failure.
THEOREM RevivedForAReason == Spec => RevivedByRetryOrCarrier
<1>1. MailIInv /\ [Next]_vars =>
        \A m \in Message :
          row[m] \in {"uncertain", "cancelled", "sent"} /\ row'[m] \in {"pending", "failed"}
          => \/ consents'[m] > consents[m]
             \/ LateThread(m)
  <2>. SUFFICES ASSUME MailIInv, [Next]_vars, NEW m \in Message,
                       row[m] \in {"uncertain", "cancelled", "sent"},
                       row'[m] \in {"pending", "failed"}
                PROVE  consents'[m] > consents[m] \/ LateThread(m)
    OBVIOUS
  <2>1. ASSUME NEW o \in Message, RowStep(o)
        PROVE  consents'[m] > consents[m]
    <3>1. Retry(m)
      BY <2>1
      DEF RowStep, Queue, Cancel, Retry, AdminRetry, Withhold, Supersede, Rotate,
          rowVars, MailIInv, TypeOK
    <3>2. consents[m] \in Nat /\ consents'[m] = consents[m] + 1
      BY <3>1 DEF Retry, MailIInv, TypeOK
    <3>. QED  BY <3>2
  <2>2. ASSUME NEW w \in Worker, WorkerStep(w)
        PROVE  LateThread(m)
    <3>1. CASE RecordFailed(w)
      <4>1. at[w] = "refused" /\ m = Item(w)
        BY <3>1 DEF RecordFailed, MailIInv, TypeOK
      <4>2. Item(w) \in batch[w]
        BY <4>1, ItemInBatch DEF MailIInv
      <4>. QED  BY <4>1, <4>2 DEF LateThread
    <3>2. CASE ~RecordFailed(w)
      BY <2>2, <3>2
      DEF WorkerStep, Recover, Interrupted, Claim, Begin, Smtp, ServerAccepts,
          ServerRefuses, ServerFallsSilent, Record, RecordSent, RecordUnsure, rowVars,
          MailIInv, TypeOK
    <3>. QED  BY <3>1, <3>2
  <2>3. ASSUME NEW w \in Worker, RecordFault(w)
        PROVE  FALSE
    BY <2>3 DEF RecordFault, BeginFails, RecordSentFails, RecordFails, rowVars
  <2>4. row' # row
    OBVIOUS
  <2>5. ~Crash /\ ~Tick /\ Next
    BY <2>4 DEF Crash, Tick, vars, rowVars
  <2>. QED  BY <2>1, <2>2, <2>3, <2>5 DEF Next
<1>. QED  BY InnerInvariant, <1>1, PTL DEF Spec, RevivedByRetryOrCarrier
=============================================================================

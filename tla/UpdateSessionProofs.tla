-------------------------- MODULE UpdateSessionProofs -------------------------
(* For every number of Ankers, length of the list and number of rounds: the  *)
(* counts the C-Anker reports are true of the Ankers, and the confirmation   *)
(* ends early only when all that are left have answered.                     *)
EXTENDS UpdateSession, FiniteSetTheorems, TLAPS

(* Sizes of sets of Ankers, ...                                              *)
LEMMA SubsetSize ==
    ASSUME NEW S \in SUBSET Ankers
    PROVE  /\ IsFiniteSet(S)
           /\ Cardinality(S) \in Nat
           /\ \A T \in SUBSET S : /\ Cardinality(T) \in Nat
                                  /\ Cardinality(T) <= Cardinality(S)
                                  /\ Cardinality(T) = Cardinality(S) => T = S
  <1>1. IsFiniteSet(Ankers)
    BY SessionAssumption, FS_Interval DEF Ankers
  <1>2. IsFiniteSet(S)
    BY <1>1, FS_Subset
  <1>3. ASSUME NEW T \in SUBSET S
        PROVE  /\ Cardinality(T) \in Nat
               /\ Cardinality(T) <= Cardinality(S)
               /\ Cardinality(T) = Cardinality(S) => T = S
    BY <1>2, FS_Subset, FS_CardinalityType
  <1> QED
    BY <1>2, <1>3

(* ... of one with another beside it or one more, ...                        *)
LEMMA UnionSize ==
    ASSUME NEW S \in SUBSET Ankers, NEW T \in SUBSET Ankers
    PROVE  S \cap T = {} => Cardinality(S \cup T) = Cardinality(S) + Cardinality(T)
  <1> SUFFICES ASSUME S \cap T = {}
               PROVE  Cardinality(S \cup T) = Cardinality(S) + Cardinality(T)
    OBVIOUS
  <1>1. IsFiniteSet(S) /\ IsFiniteSet(T)
    BY SubsetSize
  <1>2. Cardinality(S) \in Nat /\ Cardinality(T) \in Nat
    BY SubsetSize
  <1>3. Cardinality(S \cup T)
            = Cardinality(S) + Cardinality(T) - Cardinality(S \cap T)
    BY <1>1, FS_Union
  <1>4. Cardinality(S \cap T) = 0
    BY FS_EmptySet
  <1> QED
    BY <1>2, <1>3, <1>4

(* An Anker taken from a list leaves it one shorter.                         *)
LEMMA OneLess ==
    ASSUME NEW S \in SUBSET Ankers, NEW a \in S
    PROVE  Cardinality(S \ {a}) = Cardinality(S) - 1
  <1>1. IsFiniteSet(S)
    BY SubsetSize
  <1> QED
    BY <1>1, FS_RemoveElement

(* ... and of the confirmations on their way.                                *)
LEMMA MessagesSize ==
    ASSUME NEW got \in SUBSET [from : Ankers, ok : BOOLEAN]
    PROVE  Cardinality(got) \in Nat
  <1> DEFINE Pairs == Ankers \X BOOLEAN
             f == [m \in got |-> <<m.from, m.ok>>]
  <1>1. IsFiniteSet(Ankers)
    BY SubsetSize
  <1>2. IsFiniteSet(BOOLEAN)
    <2>1. IsFiniteSet({TRUE} \cup {FALSE})
      BY FS_Singleton, FS_AddElement
    <2>2. BOOLEAN = {TRUE} \cup {FALSE}
      OBVIOUS
    <2> QED
      BY <2>1, <2>2
  <1>3. IsFiniteSet(Pairs)
    BY <1>1, <1>2, FS_Product
  <1>4. f \in [got -> Pairs] /\ \A m, o \in got : f[m] = f[o] => m = o
    OBVIOUS
  <1>5. f \in Injection(got, Pairs)
    BY <1>4 DEF Injection, IsInjective
  <1> QED
    BY <1>3, <1>5, FS_Injection, FS_CardinalityType

Sizes ==
    /\ Cardinality(found) \in Nat
    /\ Cardinality(toInvite) \in Nat
    /\ Cardinality(joined) \in Nat
    /\ Cardinality(Remaining) \in 0..Cardinality(joined)
    /\ Cardinality(heard) \in Nat
    /\ Cardinality(confirmed) \in Nat

(* The lists have a length.                                                  *)
LEMMA SizesAreNat ==
    ASSUME SessionInv
    PROVE  Sizes
  <1>1. /\ found \in SUBSET Ankers /\ toInvite \in SUBSET Ankers
        /\ joined \in SUBSET Ankers /\ Remaining \in SUBSET joined
        /\ heard \in SUBSET Ankers /\ confirmed \in SUBSET Ankers
    BY DEF SessionInv, TypeOK, Remaining
  <1> QED
    BY <1>1, SubsetSize DEF Sizes

------------------------------------------------------------------------------
(* Steps that leave the lists and the counts alone.                          *)
LEMMA ListsStay ==
    ASSUME SessionInv, UNCHANGED <<listVars, confirmVars, cnt, dropped>>,
           \/ UNCHANGED <<pc, round>>
           \/ pc = "open" /\ pc' \in {"open", "join", "failed"}
           \/ pc \in {"transfer", "confirm"} /\ pc' = "failed"
    PROVE  /\ ListsShrink' /\ AnswersAreCounted' /\ CountsAreOfLists'
           /\ EndsEarlyOnlyIfAllAnswered'
  <1> USE DEF SessionInv, listVars, confirmVars
  <1>1. ListsShrink'
    BY DEF ListsShrink, Over, Remaining
  <1>2. AnswersAreCounted'
    BY DEF AnswersAreCounted, Over, Remaining
  <1>3. CountsAreOfLists'
    BY DEF CountsAreOfLists
  <1>4. EndsEarlyOnlyIfAllAnswered'
    BY DEF EndsEarlyOnlyIfAllAnswered, Remaining
  <1> QED
    BY <1>1, <1>2, <1>3, <1>4

(* The access point opens, ...                                               *)
LEMMA OpenApInv ==
    ASSUME SessionInv, OpenAp
    PROVE  SessionInv'
  <1> USE SessionAssumption DEF SessionInv, TypeOK, OpenAp, listVars,
    confirmVars, cVars, rolloutVars, transferVars
  <1>1. TypeOK'
    OBVIOUS
  <1>2. ConfirmedIsValid'
    BY DEF ConfirmedIsValid
  <1> QED
    BY <1>1, <1>2, ListsStay

(* ... or does not, ...                                                      *)
LEMMA OpenApFailsInv ==
    ASSUME SessionInv, OpenApFails
    PROVE  SessionInv'
  <1> USE SessionAssumption DEF SessionInv, TypeOK, OpenApFails, listVars,
    confirmVars, cVars, rolloutVars, transferVars
  <1>1. TypeOK'
    OBVIOUS
  <1>2. ConfirmedIsValid'
    BY DEF ConfirmedIsValid
  <1> QED
    BY <1>1, <1>2, ListsStay

(* ... or does in the end.                                                   *)
LEMMA OpensLateInv ==
    ASSUME SessionInv, OpensLate
    PROVE  SessionInv'
  <1> USE SessionAssumption DEF SessionInv, TypeOK, OpensLate, listVars,
    confirmVars, cVars, rolloutVars, transferVars
  <1>1. TypeOK'
    OBVIOUS
  <1>2. ConfirmedIsValid'
    BY DEF ConfirmedIsValid
  <1> QED
    BY <1>1, <1>2, ListsStay

(* The transfer fails, ...                                                   *)
LEMMA TransferFailsInv ==
    ASSUME SessionInv, TransferFails
    PROVE  SessionInv'
  <1> USE SessionAssumption DEF SessionInv, TypeOK, TransferFails, Finish,
    Rollout!Abort, listVars,
    confirmVars, cVars, rolloutVars, transferVars
  <1>1. TypeOK'
    OBVIOUS
  <1>2. ConfirmedIsValid'
    BY DEF ConfirmedIsValid
  <1> QED
    BY <1>1, <1>2, ListsStay

(* ... or the confirmation.                                                  *)
LEMMA ConfirmFailsInv ==
    ASSUME SessionInv, ConfirmFails
    PROVE  SessionInv'
  <1> USE SessionAssumption DEF SessionInv, TypeOK, ConfirmFails, Finish,
    listVars,
    confirmVars, cVars, rolloutVars, transferVars
  <1>1. TypeOK'
    OBVIOUS
  <1>2. ConfirmedIsValid'
    BY DEF ConfirmedIsValid
  <1> QED
    BY <1>1, <1>2, ListsStay

(* An Anker joins the access point, ...                                      *)
LEMMA JoinInv ==
    ASSUME SessionInv, NEW a \in Ankers, Join(a)
    PROVE  SessionInv'
  <1> USE SessionAssumption DEF SessionInv, TypeOK, Join, Move, listVars,
    confirmVars, cVars, rolloutVars, transferVars
  <1>1. TypeOK'
    OBVIOUS
  <1>2. ConfirmedIsValid'
    BY DEF ConfirmedIsValid
  <1> QED
    BY <1>1, <1>2, ListsStay

(* ... installs the firmware, ...                                            *)
LEMMA InstallInv ==
    ASSUME SessionInv, NEW a \in Ankers, Install(a)
    PROVE  SessionInv'
  <1> USE SessionAssumption DEF SessionInv, TypeOK, Install, Move,
    Rollout!Install, listVars,
    confirmVars, cVars, rolloutVars, transferVars
  <1>1. TypeOK'
    OBVIOUS
  <1>2. ConfirmedIsValid'
    BY DEF ConfirmedIsValid, RunsNew
  <1> QED
    BY <1>1, <1>2, ListsStay

(* ... starts again, ...                                                     *)
LEMMA RestartInv ==
    ASSUME SessionInv, NEW a \in Ankers, Restart(a)
    PROVE  SessionInv'
  <1> USE SessionAssumption DEF SessionInv, TypeOK, Restart, Rollout!Revert,
    listVars, confirmVars, cVars, rolloutVars, transferVars
  <1>1. TypeOK'
    OBVIOUS
  <1>2. ConfirmedIsValid'
    BY DEF ConfirmedIsValid
  <1> QED
    BY <1>1, <1>2, ListsStay

(* ... marks what it runs valid, ...                                         *)
LEMMA StartInv ==
    ASSUME SessionInv, NEW a \in Ankers, Start(a)
    PROVE  SessionInv'
  <1> USE SessionAssumption DEF SessionInv, TypeOK, Start, Mark, Rollout!Verify,
    listVars, confirmVars, cVars, rolloutVars, transferVars
  <1>1. TypeOK'
    OBVIOUS
  <1>2. ConfirmedIsValid'
    BY DEF ConfirmedIsValid
  <1> QED
    BY <1>1, <1>2, ListsStay

(* ... answers for what it runs, ...                                         *)
LEMMA ConfirmInv ==
    ASSUME SessionInv, NEW a \in Ankers, Confirm(a)
    PROVE  SessionInv'
  <1> USE SessionAssumption DEF SessionInv, TypeOK, Confirm, Move,
    listVars,
    confirmVars, cVars, rolloutVars, transferVars
  <1>1. PICK ok \in BOOLEAN :
            /\ inbox' \in {inbox, inbox \cup {[from |-> a, ok |-> ok]}}
            /\ firmware' \in {firmware, [firmware EXCEPT ![a] = "new"]}
            /\ ok => firmware'[a] = "new"
            /\ UNCHANGED <<dropped, outcome>>
    <2>1. ASSUME Mark(a)
          PROVE  /\ firmware' \in {firmware, [firmware EXCEPT ![a] = "new"]}
                 /\ RunsNew(a) => firmware'[a] = "new"
                 /\ UNCHANGED <<dropped, outcome>>
      BY <2>1 DEF Mark, Rollout!Verify, RunsNew
    <2>2. CASE Send(a, FALSE) /\ UNCHANGED rolloutVars
      BY <2>2 DEF Send
    <2>3. CASE Send(a, RunsNew(a)) /\ Mark(a)
      <3>1. RunsNew(a) \in BOOLEAN
        BY DEF RunsNew
      <3> QED
        BY <2>1, <2>3, <3>1 DEF Send
    <2> QED
      BY <2>2, <2>3 DEF Vouch
  <1>2. TypeOK'
    <2>1. inbox' \subseteq [from : Ankers, ok : BOOLEAN]
      BY <1>1
    <2>2. firmware' \in [Ankers -> {"old", "trial", "new", "reverted"}]
      BY <1>1
    <2> QED
      BY <1>1, <2>1, <2>2
  <1>3. ConfirmedIsValid'
    <2>1. \A b \in Ankers : firmware[b] = "new" => firmware'[b] = "new"
      BY <1>1
    <2>2. ASSUME NEW m \in inbox', m.ok
          PROVE  firmware'[m.from] = "new"
      <3>1. CASE m \in inbox
        BY <2>1, <2>2, <3>1 DEF ConfirmedIsValid
      <3>2. CASE m \notin inbox
        <4>1. m.from = a /\ m.ok = ok
          BY <1>1, <3>2
        <4> QED
          BY <1>1, <2>2, <4>1
      <3> QED
        BY <3>1, <3>2
    <2>3. \A b \in confirmed' : firmware'[b] = "new"
      BY <2>1 DEF ConfirmedIsValid
    <2> QED
      BY <2>2, <2>3 DEF ConfirmedIsValid
  <1> QED
    BY <1>1, <1>2, <1>3, ListsStay

(* ... stays ...                                                             *)
LEMMA StayOnInv ==
    ASSUME SessionInv, NEW a \in Ankers, StayOn(a)
    PROVE  SessionInv'
  <1> USE SessionAssumption DEF SessionInv, TypeOK, StayOn, Move, listVars,
    confirmVars, cVars, rolloutVars, transferVars
  <1>1. TypeOK'
    OBVIOUS
  <1>2. ConfirmedIsValid'
    BY DEF ConfirmedIsValid
  <1> QED
    BY <1>1, <1>2, ListsStay

(* ... or goes.                                                              *)
LEMMA GoHomeInv ==
    ASSUME SessionInv, NEW a \in Ankers, GoHome(a)
    PROVE  SessionInv'
  <1> USE SessionAssumption DEF SessionInv, TypeOK, GoHome, listVars,
    confirmVars, cVars, rolloutVars, transferVars
  <1>1. TypeOK'
    OBVIOUS
  <1>2. ConfirmedIsValid'
    BY DEF ConfirmedIsValid
  <1> QED
    BY <1>1, <1>2, ListsStay

(* All are invited.                                                          *)
LEMMA EndInviteInv ==
    ASSUME SessionInv, EndInvite
    PROVE  SessionInv'
  <1> USE SessionAssumption DEF SessionInv, TypeOK, EndInvite, InvitedAll,
    Finish, listVars,
    confirmVars, cVars, rolloutVars, transferVars
  <1>0. Sizes
    BY SizesAreNat
  <1>1. TypeOK'
    BY <1>0 DEF Sizes, ListsShrink
  <1>2. ListsShrink'
    BY DEF ListsShrink, Over
  <1>3. ConfirmedIsValid'
    BY DEF ConfirmedIsValid
  <1>4. AnswersAreCounted'
    BY DEF AnswersAreCounted, Over
  <1>5. CountsAreOfLists'
    BY <1>0 DEF CountsAreOfLists, Sizes
  <1>6. EndsEarlyOnlyIfAllAnswered'
    BY DEF EndsEarlyOnlyIfAllAnswered
  <1> QED
    BY <1>1, <1>2, <1>3, <1>4, <1>5, <1>6

(* The transfer gives up an Anker, ...                                       *)
LEMMA KickInv ==
    ASSUME SessionInv, NEW a \in Ankers, Kick(a)
    PROVE  SessionInv'
  <1> USE SessionAssumption DEF SessionInv, TypeOK, Kick, Rollout!Kick,
    listVars,
    confirmVars, cVars, rolloutVars, transferVars
  <1>1. TypeOK'
    OBVIOUS
  <1>2. ListsShrink'
    BY DEF ListsShrink
  <1>3. ConfirmedIsValid'
    BY DEF ConfirmedIsValid
  <1>4. AnswersAreCounted'
    BY DEF AnswersAreCounted, Over
  <1>5. CountsAreOfLists'
    BY DEF CountsAreOfLists
  <1>6. EndsEarlyOnlyIfAllAnswered'
    BY DEF EndsEarlyOnlyIfAllAnswered
  <1> QED
    BY <1>1, <1>2, <1>3, <1>4, <1>5, <1>6

(* ... or leaves it to the confirmation.                                     *)
LEMMA TransferSucceedsInv ==
    ASSUME SessionInv, TransferSucceeds
    PROVE  SessionInv'
  <1> USE SessionAssumption DEF SessionInv, TypeOK, TransferSucceeds,
    Finish, Rollout!Succeed, listVars, confirmVars, cVars, rolloutVars,
    transferVars
  <1>0. Sizes
    BY SizesAreNat
  <1>1. TypeOK'
    BY <1>0 DEF Sizes, ListsShrink
  <1>2. ListsShrink'
    BY <1>0 DEF ListsShrink, Over, Remaining, Sizes
  <1>3. ConfirmedIsValid'
    BY DEF ConfirmedIsValid
  <1>4. AnswersAreCounted'
    BY DEF AnswersAreCounted, Over
  <1>5. CountsAreOfLists'
    BY DEF CountsAreOfLists
  <1>6. EndsEarlyOnlyIfAllAnswered'
    BY DEF EndsEarlyOnlyIfAllAnswered
  <1> QED
    BY <1>1, <1>2, <1>3, <1>4, <1>5, <1>6

(* An Anker is invited, and counted if it is heard to come.                  *)
LEMMA InviteInv ==
    ASSUME SessionInv, NEW a \in Ankers, Invite(a)
    PROVE  SessionInv'
  <1> USE SessionAssumption DEF SessionInv, TypeOK, Invite, confirmVars,
    transferVars, rolloutVars
  <1>1. Sizes
    BY SizesAreNat
  <1>2. /\ numAcked' + Cardinality(toInvite') <= Cardinality(found)
        /\ numAcked' \in {numAcked, numAcked + 1}
        /\ Cardinality(toInvite') \in Nat
    <2>1. Cardinality(toInvite') = Cardinality(toInvite) - 1
      BY OneLess
    <2>2. Cardinality(toInvite') \in Nat
      BY SubsetSize
    <2>3. numAcked' \in {numAcked, numAcked + 1}
      OBVIOUS
    <2> QED
      BY <1>1, <2>1, <2>2, <2>3 DEF ListsShrink, Sizes
  <1>3. TypeOK'
    BY <1>1, <1>2 DEF ListsShrink, Sizes
  <1>4. ListsShrink'
    BY <1>1, <1>2 DEF ListsShrink, Sizes
  <1>5. ConfirmedIsValid' /\ AnswersAreCounted'
    BY DEF ConfirmedIsValid, AnswersAreCounted, Remaining
  <1>6. CountsAreOfLists' /\ EndsEarlyOnlyIfAllAnswered'
    BY DEF CountsAreOfLists, EndsEarlyOnlyIfAllAnswered
  <1> QED
    BY <1>3, <1>4, <1>5, <1>6

(* A round of the discovery starts a new list, ...                           *)
LEMMA DiscoverInv ==
    ASSUME SessionInv, Discover
    PROVE  SessionInv'
  <1> USE SessionAssumption DEF SessionInv, TypeOK, Discover, confirmVars,
    transferVars, rolloutVars
  <1>1. PICK got \in SUBSET Ankers :
            /\ Cardinality(got) <= MaxToUpdate
            /\ found' = got /\ toInvite' = got
            /\ pc' \in {"discover", "invite"}
    BY DEF Answers
  <1>2. Cardinality(got) \in Nat
    BY SubsetSize
  <1>3. TypeOK'
    BY <1>1
  <1>4. ListsShrink'
    BY <1>1, <1>2 DEF ListsShrink, Over
  <1>5. ConfirmedIsValid' /\ AnswersAreCounted'
    BY DEF ConfirmedIsValid, AnswersAreCounted, Over
  <1>6. CountsAreOfLists' /\ EndsEarlyOnlyIfAllAnswered'
    BY DEF CountsAreOfLists, EndsEarlyOnlyIfAllAnswered
  <1> QED
    BY <1>3, <1>4, <1>5, <1>6

(* ... and so does one of the joining, of those that were heard.             *)
LEMMA JoinRoundInv ==
    ASSUME SessionInv, JoinRound
    PROVE  SessionInv'
  <1> USE SessionAssumption DEF SessionInv, TypeOK, JoinRound, confirmVars, Finish
  <1>1. PICK got \in SUBSET Ankers :
            /\ Cardinality(got) <= numAcked
            /\ joined' = got
            /\ \/ pc' = "join" /\ UNCHANGED <<cnt, dropped>>
               \/ /\ pc' = "transfer"
                  /\ cnt' = [cnt EXCEPT !.joined = Cardinality(got)]
                  /\ dropped' = Ankers \ got
               \/ /\ pc' = "failed"
                  /\ UNCHANGED <<cnt, dropped>>
    BY DEF Answers
  <1>2. Cardinality(got) \in Nat /\ Sizes
    BY SubsetSize, SizesAreNat
  <1>3. Cardinality(got) <= MaxToUpdate /\ Cardinality(got) <= Cardinality(found)
    BY <1>1, <1>2 DEF ListsShrink, Sizes
  <1>4. confirmed = {} /\ heard = {}
    BY DEF AnswersAreCounted, Over
  <1>5. TypeOK'
    BY <1>1, <1>2, <1>4
  <1>6. ListsShrink'
    BY <1>1, <1>3 DEF ListsShrink
  <1>7. ConfirmedIsValid'
    BY DEF ConfirmedIsValid
  <1>8. AnswersAreCounted'
    BY DEF AnswersAreCounted, Over
  <1>9. CountsAreOfLists'
    BY <1>1, <1>2, <1>3 DEF CountsAreOfLists
  <1>10. EndsEarlyOnlyIfAllAnswered'
    BY DEF EndsEarlyOnlyIfAllAnswered
  <1> QED
    BY <1>5, <1>6, <1>7, <1>8, <1>9, <1>10

(* What a round of the confirmation counts: Ankers that are left and not yet *)
(* confirmed, each once.                                                     *)
LEMMA CountedOnce ==
    ASSUME SessionInv, NEW got \in SUBSET inbox
    PROVE  LET ok == {a \in Counted(got) : Confirms(got, a)}
           IN  /\ Counted(got) \subseteq Remaining \ confirmed
               /\ Cardinality(Counted(got)) \in Nat
               /\ \A a \in ok : firmware[a] = "new"
               /\ Cardinality(confirmed \cup ok) = Cardinality(confirmed) + Cardinality(ok)
               /\ heard \cap Counted(got) = {} =>
                      Cardinality(heard \cup Counted(got))
                          = Cardinality(heard) + Cardinality(Counted(got))
  <1> DEFINE C == Counted(got)
             ok == {a \in C : Confirms(got, a)}
  <1>1. C \subseteq Remaining \ confirmed
    BY DEF Counted
  <1>2. /\ C \in SUBSET Ankers /\ ok \in SUBSET Ankers
        /\ confirmed \in SUBSET Ankers /\ heard \in SUBSET Ankers
    BY <1>1 DEF SessionInv, TypeOK, Remaining
  <1>3. ASSUME NEW a \in ok
        PROVE  firmware[a] = "new"
    <2>1. [from |-> a, ok |-> TRUE] \in inbox
      BY DEF Confirms
    <2> QED
      BY <2>1 DEF SessionInv, ConfirmedIsValid
  <1>4. confirmed \cap ok = {}
    BY <1>1
  <1> HIDE DEF C, ok
  <1>5. Cardinality(C) \in Nat
    BY <1>2, SubsetSize
  <1>6. Cardinality(confirmed \cup ok) = Cardinality(confirmed) + Cardinality(ok)
    BY <1>2, <1>4, UnionSize
  <1>7. heard \cap C = {} => Cardinality(heard \cup C) = Cardinality(heard) + Cardinality(C)
    BY <1>2, UnionSize
  <1> QED
    BY <1>1, <1>3, <1>5, <1>6, <1>7 DEF C, ok

(* A round of the confirmation counts the answers of Ankers that are left    *)
(* and not counted yet (643-677).                                            *)
LEMMA ConfirmRoundInv ==
    ASSUME SessionInv, ConfirmRound
    PROVE  SessionInv'
  <1> USE DEF SessionInv
  <1>1. PICK got \in Retrieved :
         LET ok == {a \in Counted(got) : Confirms(got, a)}
             answered == numAnswered + Cardinality(Counted(got))
             slots == IF Cardinality(got) > filled THEN Cardinality(got) ELSE filled
         IN  /\ confirmed' = confirmed \cup ok
             /\ numAnswered' = answered
             /\ numCorrect' = numCorrect + Cardinality(ok)
             /\ filled' = slots
             /\ again' = (again \/ heard \cap Counted(got) # {})
             /\ heard' = heard \cup Counted(got)
             /\ inbox' \in {inbox \ got, {}}
             /\ IF answered = numAcked \/ round + 1 = ConfirmRounds
                THEN EndConfirm(numCorrect + Cardinality(ok), slots)
                ELSE UNCHANGED <<pc, cnt>>
    BY DEF ConfirmRound
  <1> DEFINE C == Counted(got)
             ok == {a \in C : Confirms(got, a)}
  <1>2. /\ pc = "confirm" /\ round' = round + 1
        /\ UNCHANGED <<listVars, ap, transferVars, at>>
    BY DEF ConfirmRound
  <1>3. /\ confirmed' = confirmed \cup ok
        /\ numAnswered' = numAnswered + Cardinality(C)
        /\ numCorrect' = numCorrect + Cardinality(ok)
        /\ filled' \in {Cardinality(got), filled}
        /\ again' = (again \/ heard \cap C # {})
        /\ heard' = heard \cup C
        /\ inbox' \subseteq inbox
    BY <1>1
  <1>4. \/ /\ numAnswered' = numAcked \/ round' = ConfirmRounds
           /\ pc' = "done"
           /\ cnt' = [cnt EXCEPT !.updated = numCorrect']
        \/ pc' \in {"crashed", "confirm"} /\ UNCHANGED cnt
    BY <1>1, <1>2 DEF EndConfirm, Finish
  <1>6. /\ C \subseteq Remaining \ confirmed
        /\ Cardinality(C) \in Nat
        /\ ok \subseteq C /\ \A a \in ok : firmware[a] = "new"
        /\ Cardinality(confirmed \cup ok) = Cardinality(confirmed) + Cardinality(ok)
        /\ heard \cap C = {} =>
               Cardinality(heard \cup C) = Cardinality(heard) + Cardinality(C)
    BY CountedOnce DEF Retrieved
  <1>7. Cardinality(got) \in Nat /\ Cardinality(got) <= Cardinality(joined)
    BY MessagesSize DEF Retrieved, TypeOK
  <1> HIDE DEF C, ok
  <1>8. UNCHANGED <<joined, dropped, Remaining, firmware, numAcked, found, toInvite>>
    BY <1>2 DEF listVars, transferVars, rolloutVars, Remaining
  <1>9. confirmed' \subseteq Remaining /\ heard' \subseteq Remaining
    BY <1>3, <1>6 DEF AnswersAreCounted
  <1>10. numCorrect' = Cardinality(confirmed')
    BY <1>3, <1>6 DEF AnswersAreCounted
  <1>11. Sizes /\ Cardinality(confirmed') \in 0 .. Cardinality(joined)
    <2>1. joined \in SUBSET Ankers /\ confirmed' \in SUBSET joined
      BY <1>9 DEF TypeOK, Remaining
    <2> QED
      BY <2>1, SizesAreNat, SubsetSize
  <1>12. TypeOK'
    <2>1. numAnswered' \in Nat /\ numCorrect' \in 0 .. MaxToUpdate
          /\ filled' \in 0 .. MaxToUpdate /\ round' \in Nat
      BY <1>2, <1>3, <1>6, <1>7, <1>10, <1>11, SessionAssumption
      DEF TypeOK, ListsShrink, Sizes
    <2>2. confirmed' \subseteq joined' /\ heard' \subseteq joined'
      BY <1>8, <1>9 DEF Remaining
    <2>3. again' \in BOOLEAN
      BY <1>3 DEF TypeOK
    <2>4. /\ cnt' \in [to_update : 0..MaxToUpdate, joined : 0..MaxToUpdate,
                       updated : 0..MaxToUpdate]
          /\ pc' \in {"done", "crashed", "confirm"}
      BY <1>4, <2>1 DEF TypeOK
    <2> QED
      BY <1>2, <1>3, <2>1, <2>2, <2>3, <2>4
      DEF TypeOK, listVars, transferVars, rolloutVars
  <1>13. ListsShrink'
    BY <1>2, <1>4, <1>8 DEF ListsShrink, Over
  <1>14. ConfirmedIsValid'
    BY <1>3, <1>6, <1>8 DEF ConfirmedIsValid
  <1>15. AnswersAreCounted'
    <2>1. again' \/ numAnswered' = Cardinality(heard')
      BY <1>3, <1>6 DEF AnswersAreCounted
    <2> QED
      BY <1>4, <1>8, <1>9, <1>10, <2>1 DEF AnswersAreCounted, Over
  <1>16. CountsAreOfLists'
    <2>1. cnt'.joined = cnt.joined /\ cnt'.to_update = cnt.to_update
      BY <1>4 DEF TypeOK
    <2>2. cnt'.updated <= Cardinality(confirmed')
          /\ cnt'.updated <= cnt.joined /\ (pc' # "done" => cnt'.updated = 0)
      BY <1>2, <1>4, <1>10, <1>11 DEF TypeOK, CountsAreOfLists
    <2> QED
      BY <1>2, <1>4, <1>8, <2>1, <2>2 DEF CountsAreOfLists
  <1>17. EndsEarlyOnlyIfAllAnswered'
    <2> SUFFICES ASSUME pc' = "done", round' < ConfirmRounds, ~again'
                 PROVE  Remaining \subseteq heard'
      BY <1>8 DEF EndsEarlyOnlyIfAllAnswered
    <2>1. numAnswered' = Cardinality(Remaining)
      BY <1>2, <1>4, SessionAssumption DEF ListsShrink
    <2>2. Cardinality(heard') = Cardinality(Remaining)
      BY <1>15, <2>1 DEF AnswersAreCounted
    <2>3. Remaining \in SUBSET Ankers
      BY DEF Remaining, TypeOK
    <2> QED
      BY <1>9, <2>2, <2>3, SubsetSize
  <1> QED
    BY <1>12, <1>13, <1>14, <1>15, <1>16, <1>17

(* The invariant holds when the session begins,                              *)
LEMMA InitInv == Init => SessionInv
  <1> SUFFICES ASSUME Init
               PROVE  SessionInv
    OBVIOUS
  <1> USE SessionAssumption DEF Init
  <1>1. Cardinality({}) = 0 /\ Remaining = {}
    BY FS_EmptySet DEF Remaining
  <1>2. TypeOK
    <2>1. cnt \in [to_update : 0..MaxToUpdate, joined : 0..MaxToUpdate,
                   updated : 0..MaxToUpdate]
      OBVIOUS
    <2>2. at \in [Ankers -> {"home", "invited", "ap", "leaving", "starting"}]
          /\ firmware \in [Ankers -> {"old", "trial", "new", "reverted"}]
      OBVIOUS
    <2> QED
      BY <2>1, <2>2 DEF TypeOK
  <1>3. ListsShrink /\ ConfirmedIsValid
    BY <1>1 DEF ListsShrink, ConfirmedIsValid
  <1>4. AnswersAreCounted /\ CountsAreOfLists
    BY <1>1 DEF AnswersAreCounted, CountsAreOfLists
  <1>5. EndsEarlyOnlyIfAllAnswered
    BY DEF EndsEarlyOnlyIfAllAnswered
  <1> QED
    BY <1>2, <1>3, <1>4, <1>5 DEF SessionInv

(* and after each step.                                                      *)
LEMMA NextInv == SessionInv /\ [Next]_vars => SessionInv'
  <1> SUFFICES ASSUME SessionInv, [Next]_vars
               PROVE  SessionInv'
    OBVIOUS
  <1>1. CASE UNCHANGED vars
    <2>1. TypeOK' /\ ConfirmedIsValid'
      BY <1>1 DEF SessionInv, TypeOK, ConfirmedIsValid, vars, cVars,
        listVars, confirmVars, transferVars, rolloutVars
    <2> QED
      BY <1>1, <2>1, ListsStay DEF SessionInv, vars, cVars, transferVars, rolloutVars
  <1>2. CASE CAnkerNext
    BY <1>2, DiscoverInv, EndInviteInv, OpenApInv, OpenApFailsInv, JoinRoundInv,
      ConfirmRoundInv, ConfirmFailsInv, InviteInv DEF CAnkerNext
  <1>3. ASSUME NEW a \in Ankers,
               \/ Kick(a) \/ Join(a) \/ Install(a) \/ Restart(a) \/ Start(a) \/ Confirm(a)
               \/ StayOn(a) \/ GoHome(a)
        PROVE  SessionInv'
    BY <1>3, KickInv, JoinInv, InstallInv, RestartInv, StartInv, ConfirmInv,
      StayOnInv, GoHomeInv
  <1> QED
    BY <1>1, <1>2, <1>3, OpensLateInv, TransferSucceedsInv, TransferFailsInv DEF Next

------------------------------------------------------------------------------
(* Each list of Ankers is part of the one before, what is counted is on one, *)
(* and what is confirmed is valid (643-702, 1154-1256).                      *)
THEOREM Invariance == Spec => []SessionInv
  BY InitInv, NextInv, PTL DEF Spec

(* Whatever is lost, whoever goes, is kicked or boots its old firmware again:*)
(* no Anker is reported to the server as updated unless it joined, was not   *)
(* kicked and runs the new firmware for good, and each count is part of the  *)
(* one before.                                                               *)
THEOREM ReportIsTrue == Spec => []CountsAreTrue
  <1>1. SessionInv => CountsAreTrue
    <2> SUFFICES ASSUME SessionInv
                 PROVE  CountsAreTrue
      OBVIOUS
    <2> DEFINE Updated == {a \in Remaining : firmware[a] = "new"}
    <2>1. confirmed \in SUBSET Updated
      BY DEF SessionInv, AnswersAreCounted, ConfirmedIsValid
    <2>2. Updated \in SUBSET Ankers
      BY DEF SessionInv, TypeOK, Remaining
    <2>3. Cardinality(confirmed) <= Cardinality(Updated)
          /\ Cardinality(confirmed) \in Nat /\ Cardinality(Updated) \in Nat
      BY <2>1, <2>2, SubsetSize
    <2>4. cnt.updated <= Cardinality(Updated)
      BY <2>3 DEF SessionInv, CountsAreOfLists, TypeOK
    <2> QED
      BY <2>4 DEF SessionInv, CountsAreOfLists, CountsAreTrue
  <1> QED
    BY <1>1, Invariance, PTL

(* The confirmation is cut short (num_answered == *num_acknowledged) only if *)
(* everybody left has been heard, or somebody was counted twice.             *)
THEOREM NobodyIsMissed == Spec => []EndsEarlyOnlyIfAllAnswered
  <1>1. SessionInv => EndsEarlyOnlyIfAllAnswered
    BY DEF SessionInv
  <1> QED
    BY <1>1, Invariance, PTL
==============================================================================

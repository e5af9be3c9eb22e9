------------------------- MODULE PollingPlaceProofs -------------------------
(***************************************************************************)
(* How the two promises of the server are related: a polling place with one *)
(* clerk is a ballot box.  No matter of the code any more, so it also holds *)
(* of whatever else implements PollingPlace.                                *)
(***************************************************************************)
EXTENDS PollingPlace, TLAPS

(* The box of a place without the clerks' names.                              *)
BallotOf(b) == [number |-> b.number, voter |-> b.voter, candidate |-> b.candidate]
OneBox == INSTANCE BallotBox WITH box <- {BallotOf(b) : b \in box}

(* Ballots bear the name of a clerk.                                          *)
ClerkOnBallot == \A b \in box : b.clerk \in Clerk

LEMMA ClerkStep ==
    ASSUME ClerkOnBallot, [Next]_placeVars
    PROVE  ClerkOnBallot'
<1>1. ASSUME NEW k \in Clerk, NEW v \in Voter, NEW c \in Candidate, Cast(k, v, c)
      PROVE  ClerkOnBallot'
  BY <1>1 DEF Cast, ClerkOnBallot
<1>2. CASE box' \subseteq box
  BY <1>2 DEF ClerkOnBallot
<1> QED
  BY <1>1, <1>2 DEF Next, placeVars, OpenOrClose, Admit, Dismiss, Enroll, Strike, EmptyBox

LEMMA BoxOfPlaceStep ==
    ASSUME NEW k0, Clerk = {k0}, ClerkOnBallot, [Next]_placeVars
    PROVE  [OneBox!Next]_OneBox!boxVars
<1> DEFINE Plain == {BallotOf(b) : b \in box}
<1>1. ASSUME NEW k \in Clerk, NEW v \in Voter, NEW c \in Candidate, Cast(k, v, c)
      PROVE  OneBox!Cast(v, c)
  <2> DEFINE new == [number |-> issued', clerk |-> k, voter |-> v, candidate |-> c]
  <2>1. box' = box \cup {new} /\ issued' = issued + 1 /\ register' = register /\ v \in register
    BY <1>1 DEF Cast
  <2>2. \A b \in box : BallotOf(b).voter # v
    BY <1>1 DEF Cast, ClerkOnBallot, BallotOf
  <2>3. BallotOf(new) = [number |-> issued', voter |-> v, candidate |-> c]
    BY DEF BallotOf
  <2> HIDE DEF new
  <2>4. {BallotOf(b) : b \in box \cup {new}} = Plain \cup {BallotOf(new)}
    BY Zenon
  <2> QED
    BY <2>1, <2>2, <2>3, <2>4 DEF OneBox!Cast
<1>2. ASSUME NEW v \in Voter, Strike(v)
      PROVE  OneBox!Strike(v)
  <2>1. \A b : BallotOf(b).voter = b.voter
    BY DEF BallotOf
  <2>2. {BallotOf(b) : b \in {d \in box : d.voter # v}} = {e \in Plain : e.voter # v}
    BY <2>1, Zenon
  <2> QED
    BY <1>2, <2>2 DEF Strike, OneBox!Strike
<1>3. ASSUME NEW S \in SUBSET Voter, Enroll(S)
      PROVE  OneBox!Enroll(S)
  BY <1>3 DEF Enroll, OneBox!Enroll
<1>4. ASSUME EmptyBox
      PROVE  OneBox!EmptyBox
  BY <1>4 DEF EmptyBox, OneBox!EmptyBox
<1>5. CASE UNCHANGED <<register, box, issued>>
  BY <1>5 DEF OneBox!boxVars
<1> QED
  BY <1>1, <1>2, <1>3, <1>4, <1>5
     DEF Next, placeVars, OpenOrClose, Admit, Dismiss, OneBox!Next

(* With one clerk, admission and desk make no difference to the box: a place  *)
(* that serves one voter at a time gives nobody a second ballot.              *)
THEOREM OneClerkIsBallotBox ==
    ASSUME NEW k0, Clerk = {k0}
    PROVE  Spec => OneBox!Spec
<1>1. Init => ClerkOnBallot /\ OneBox!Init
  BY DEF Init, ClerkOnBallot, OneBox!Init
<1>2. ClerkOnBallot /\ [Next]_placeVars => ClerkOnBallot'
  BY ClerkStep
<1>3. ClerkOnBallot /\ [Next]_placeVars => [OneBox!Next]_OneBox!boxVars
  BY BoxOfPlaceStep
<1> QED
  BY <1>1, <1>2, <1>3, PTL DEF Spec, OneBox!Spec

(* Ballots differ in their numbers, and those of one clerk in their voters.   *)
BallotsApart ==
    \A b, c \in box :
        /\ b.number <= issued
        /\ (b.number = c.number \/ (b.clerk = c.clerk /\ b.voter = c.voter)) => b = c

(* With any number of clerks, nobody has two ballots of one clerk in the box  *)
(* at once, and no two ballots have one number.                               *)
THEOREM PlaceKeepsApart == Spec => []BallotsApart
<1> DEFINE Inv == BallotsApart /\ issued \in Nat /\ \A b \in box : b.number \in Nat
<1>1. Init => Inv
  BY DEF Init, BallotsApart
<1>2. Inv /\ [Next]_placeVars => Inv'
  <2> SUFFICES ASSUME Inv, [Next]_placeVars PROVE Inv'
    OBVIOUS
  <2>1. ASSUME NEW k \in Clerk, NEW v \in Voter, NEW c \in Candidate, Cast(k, v, c)
        PROVE  Inv'
    <3> DEFINE new == [number |-> issued', clerk |-> k, voter |-> v, candidate |-> c]
    <3>1. /\ box' = box \cup {new} /\ issued' = issued + 1 /\ new.number = issued + 1
          /\ \A b \in box : b.clerk = new.clerk => b.voter # new.voter
      BY <2>1 DEF Cast
    <3> HIDE DEF new
    <3>2. \A b \in box : b.number < new.number
      BY <3>1 DEF BallotsApart
    <3> QED
      BY <3>1, <3>2 DEF BallotsApart
  <2>2. CASE box' \subseteq box /\ issued' = issued
    BY <2>2 DEF BallotsApart
  <2> QED
    BY <2>1, <2>2 DEF Next, placeVars, OpenOrClose, Admit, Dismiss, Enroll, Strike, EmptyBox
<1>3. Inv => BallotsApart
  OBVIOUS
<1> HIDE DEF Inv
<1> QED
  BY <1>1, <1>2, <1>3, PTL DEF Spec
=============================================================================

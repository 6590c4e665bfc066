--------------------------- MODULE WorkersProofs ---------------------------
(* Proofs about Workers, for every value of its constants. *)
EXTENDS Workers, JobLeaseProofs, FiniteSetTheorems

-----------------------------------------------------------------------------
(* TicketLock, with any roots, pasts and troubles. *)

\* What a root's entry becomes when its state is noted.
WithState(e, s) == [e EXCEPT !.state = s, !.fresh = TRUE]

LEMMA EntryNoted ==
  ASSUME NEW f, NEW t, NEW m, NEW e \in Tickets(f, t, m)!Entries, NEW s \in Tickets(f, t, m)!RunStates \ {"none"}
  PROVE  /\ WithState(e, s) \in Tickets(f, t, m)!Entries
         /\ WithState(e, s).lists = e.lists
         /\ WithState(e, s).state = s
         /\ WithState(e, s).fresh
<1> DEFINE e1 == [e EXCEPT !.state = s]
           e2 == [e1 EXCEPT !.fresh = TRUE]
<1>1. e1 \in Tickets(f, t, m)!Entries /\ e1.lists = e.lists /\ e1.state = s
  BY DEF Tickets!Entries, Tickets!RunStates, Tickets!Ended
<1>2. e2 \in Tickets(f, t, m)!Entries /\ e2.lists = e1.lists /\ e2.state = e1.state /\ e2.fresh
  <2> HIDE DEF e1
  <2> QED BY <1>1 DEF Tickets!Entries, Tickets!RunStates, Tickets!Ended
<1>3. WithState(e, s) = e2
  BY DEF WithState
<1> HIDE DEF e1, e2
<1> QED BY <1>1, <1>2, <1>3

LEMMA EntryListed ==
  ASSUME NEW f, NEW t, NEW m, NEW e \in Tickets(f, t, m)!Entries
  PROVE  /\ [e EXCEPT !.lists = TRUE] \in Tickets(f, t, m)!Entries
         /\ [e EXCEPT !.lists = TRUE].lists
         /\ [e EXCEPT !.lists = TRUE].state = e.state
         /\ [e EXCEPT !.lists = TRUE].fresh = e.fresh
BY DEF Tickets!Entries, Tickets!Ended

LEMMA EntryIsNew ==
  ASSUME NEW f, NEW t, NEW m
  PROVE  Tickets(f, t, m)!NewEntry \in Tickets(f, t, m)!Entries
BY DEF Tickets!Entries, Tickets!NewEntry, Tickets!Ended

\* Noted, for a root of any kind.
LEMMA NotedIs ==
  ASSUME NEW f, NEW t, NEW m, NEW r \in Roots, NEW s \in Tickets(f, t, m)!RunStates \ {"none"},
         Tickets(f, t, m)!TypeOK
  PROVE  /\ Tickets(f, t, m)!Noted(r, s) \in Tickets(f, t, m)!Entries
         /\ Tickets(f, t, m)!Noted(r, s).state = s
         /\ Tickets(f, t, m)!Noted(r, s).fresh
         /\ v3[r] # Nothing => Tickets(f, t, m)!Noted(r, s).lists = v3[r].lists
<1> DEFINE e == IF v3[r] = Nothing THEN Tickets(f, t, m)!NewEntry ELSE v3[r]
<1>1. e \in Tickets(f, t, m)!Entries
  BY EntryIsNew DEF Tickets!TypeOK
<1>2. Tickets(f, t, m)!Noted(r, s) = WithState(e, s)
  BY DEF Tickets!Noted, WithState
<1>3. v3[r] # Nothing => e = v3[r]
  OBVIOUS
<1> HIDE DEF e
<1> QED BY <1>1, <1>2, <1>3, EntryNoted

\* RunState, case by case.
LEMMA RunStateIs ==
  ASSUME NEW f, NEW t, NEW m
  PROVE  \A r \in Roots : v2[r] \in Tickets(f, t, m)!Runs =>
           /\ Tickets(f, t, m)!RunState(r) \in Tickets(f, t, m)!RunStates
           /\ Tickets(f, t, m)!RunState(r) = "none" <=> v2[r].stage = "none"
           /\ Tickets(f, t, m)!RunState(r) = "open" <=> v2[r].stage = "early" /\ ~v2[r].closed
BY DEF Tickets!RunState, Tickets!RunStates, Tickets!Runs, Tickets!Late, Tickets!Ended

\* Who claims and who holds, in terms of the variables.
ClaimsAt(r) == /\ v7[r] = "claim"
               /\ \/ v4[r] = "claimed"
                  \/ v2[r].stage = "early" /\ ~v2[r].closed /\ v2[r].lists
HoldsAt(r)  == /\ v3[r] # Nothing /\ v1[r]
               /\ \/ v2[r].stage = "early" /\ ~v2[r].closed /\ v2[r].lists
                  \/ v2[r].stage = "none" /\ v3[r].state = "open" /\ v3[r].fresh /\ v3[r].lists

LEMMA ClaimsAndHolds ==
  ASSUME NEW f, NEW t, NEW m
  PROVE  Tickets(f, t, m)!TypeOK =>
           \A r \in Roots : /\ Tickets(f, t, m)!Claims(r) <=> ClaimsAt(r)
                            /\ Tickets(f, t, m)!Holds(r) <=> HoldsAt(r)
<1> SUFFICES ASSUME Tickets(f, t, m)!TypeOK, NEW r \in Roots
             PROVE  /\ Tickets(f, t, m)!Claims(r) <=> ClaimsAt(r)
                    /\ Tickets(f, t, m)!Holds(r) <=> HoldsAt(r)
  OBVIOUS
<1>1. /\ Tickets(f, t, m)!RunState(r) = "none" <=> v2[r].stage = "none"
      /\ Tickets(f, t, m)!RunState(r) = "open" <=> v2[r].stage = "early" /\ ~v2[r].closed
  BY RunStateIs DEF Tickets!TypeOK
<1> QED BY <1>1 DEF Tickets!Claims, Tickets!Holds, Tickets!Claimed, Tickets!Working, ClaimsAt, HoldsAt

\* ClaimsHold, in terms of the variables.
ClaimsHeld ==
  /\ \A r \in Roots : v4[r] # "no" => v1[r] /\ v2[r] = [stage |-> "none", closed |-> FALSE, lists |-> FALSE]
  /\ \A r \in Roots : ClaimsAt(r) => HoldsAt(r)
  /\ \A r, s \in Roots : r # s => ~(ClaimsAt(r) /\ ClaimsAt(s))

LEMMA ClaimsHoldIs ==
  ASSUME NEW f, NEW t, NEW m
  PROVE  Tickets(f, t, m)!TypeOK => (Tickets(f, t, m)!ClaimsHold <=> ClaimsHeld)
BY ClaimsAndHolds DEF Tickets!ClaimsHold, ClaimsHeld, Tickets!NoRun

LEMMA ClaimsHoldWill ==
  ASSUME NEW f, NEW t, NEW m
  PROVE  (Tickets(f, t, m)!TypeOK => (Tickets(f, t, m)!ClaimsHold <=> ClaimsHeld))'
<1>1. Tickets(f, t, m)!TypeOK => (Tickets(f, t, m)!ClaimsHold <=> ClaimsHeld)
  BY ClaimsHoldIs
<1> QED BY <1>1, PTL

\* A step at one root keeps the claims held if it does there.
LEMMA AtOneRoot ==
  ASSUME ClaimsHeld, NEW r \in Roots,
         \A s \in Roots \ {r} : /\ v1'[s] = v1[s] /\ v2'[s] = v2[s] /\ v3'[s] = v3[s]
                                /\ v4'[s] = v4[s] /\ v7'[s] = v7[s],
         v4'[r] # "no" => v1'[r] /\ v2'[r] = [stage |-> "none", closed |-> FALSE, lists |-> FALSE],
         ClaimsAt(r)' => HoldsAt(r)',
         ClaimsAt(r)' => ClaimsAt(r) \/ \A s \in Roots \ {r} : ~HoldsAt(s)
  PROVE  ClaimsHeld'
<1>1. \A s \in Roots \ {r} : (ClaimsAt(s)' <=> ClaimsAt(s)) /\ (HoldsAt(s)' <=> HoldsAt(s))
  BY DEF ClaimsAt, HoldsAt
<1>2. \A s \in Roots : ClaimsAt(s)' => HoldsAt(s)'
  BY <1>1 DEF ClaimsHeld
<1>3. \A s \in Roots \ {r} : ~(ClaimsAt(r)' /\ ClaimsAt(s)')
  BY <1>1 DEF ClaimsHeld
<1>4. \A s, u \in Roots : s # u => ~(ClaimsAt(s)' /\ ClaimsAt(u)')
  BY <1>1, <1>3 DEF ClaimsHeld
<1>5. \A s \in Roots : v4'[s] # "no" => v1'[s] /\ v2'[s] = [stage |-> "none", closed |-> FALSE, lists |-> FALSE]
  BY DEF ClaimsHeld
<1> QED BY <1>2, <1>4, <1>5 DEF ClaimsHeld

\* What the other roots keep, and what has to be shown of the one that moves.
Apart(r) == \A s \in Roots \ {r} : /\ v1'[s] = v1[s] /\ v2'[s] = v2[s] /\ v3'[s] = v3[s]
                                   /\ v4'[s] = v4[s] /\ v7'[s] = v7[s]
Sole(r)  == /\ v4'[r] # "no" => v1'[r] /\ v2'[r] = [stage |-> "none", closed |-> FALSE, lists |-> FALSE]
            /\ ClaimsAt(r)' => HoldsAt(r)'
            /\ ClaimsAt(r)' => ClaimsAt(r) \/ \A s \in Roots \ {r} : ~HoldsAt(s)

TicketsAssumption(m) == Nothing \notin Tickets({}, {}, 0)!Entries /\ MaxInits \in Nat /\ m \in Nat

LEMMA NothingIsNoEntry ==
  ASSUME NEW f, NEW t, NEW m, TicketsAssumption(m)
  PROVE  \A e \in Tickets(f, t, m)!Entries : e # Nothing
BY DEF TicketsAssumption, Tickets!Entries, Tickets!Ended

-----------------------------------------------------------------------------
(* init *)

LEMMA TicketsBegin ==
  ASSUME NEW f, NEW t, NEW m, TicketsAssumption(m), NEW r \in Roots,
         Tickets(f, t, m)!TypeOK, ClaimsHeld, Tickets(f, t, m)!Begin(r)
  PROVE  Tickets(f, t, m)!TypeOK' /\ ClaimsHeld'
<1>1. Tickets(f, t, m)!TypeOK'
  <2>1. v2' \in [Roots -> Tickets(f, t, m)!Runs]
    BY DEF Tickets!Begin, Tickets!TypeOK, Tickets!NoRun, Tickets!Runs
  <2>2. v8' \in 0..MaxInits
    BY DEF Tickets!Begin, Tickets!TypeOK, TicketsAssumption
  <2> QED BY <2>1, <2>2 DEF Tickets!Begin, Tickets!TypeOK, Tickets!Steps
<1>2. Apart(r)
  BY DEF Apart, Tickets!Begin, Tickets!TypeOK
<1>3. Sole(r)
  BY DEF Sole, ClaimsAt, HoldsAt, Tickets!Begin, Tickets!Free, Tickets!TypeOK, Tickets!NoRun
<1> QED BY <1>1, <1>2, <1>3, AtOneRoot DEF Apart, Sole

LEMMA TicketsNeedsNone ==
  ASSUME NEW f, NEW t, NEW m, TicketsAssumption(m), NEW r \in Roots,
         Tickets(f, t, m)!TypeOK, ClaimsHeld, Tickets(f, t, m)!NeedsNone(r)
  PROVE  Tickets(f, t, m)!TypeOK' /\ ClaimsHeld'
<1>1. Tickets(f, t, m)!TypeOK'
  BY DEF Tickets!NeedsNone, Tickets!Trouble, Tickets!TypeOK, Tickets!Steps, TicketsAssumption
<1>2. Apart(r)
  BY DEF Apart, Tickets!NeedsNone, Tickets!TypeOK
<1>3. Sole(r)
  BY DEF Sole, ClaimsAt, HoldsAt, ClaimsHeld, Tickets!NeedsNone, Tickets!TypeOK
<1> QED BY <1>1, <1>2, <1>3, AtOneRoot DEF Apart, Sole

LEMMA TicketsClaim ==
  ASSUME NEW f, NEW t, NEW m, TicketsAssumption(m), NEW r \in Roots, NEW adopt \in BOOLEAN, NEW sign,
         Tickets(f, t, m)!TypeOK, ClaimsHeld, Tickets(f, t, m)!Claim(r, adopt, sign)
  PROVE  Tickets(f, t, m)!TypeOK' /\ ClaimsHeld'
<1> DEFINE noted == Tickets(f, t, m)!Noted(r, "open")
           e     == [noted EXCEPT !.lists = TRUE]
<1>1. noted \in Tickets(f, t, m)!Entries /\ noted.state = "open" /\ noted.fresh
  <2>1. "open" \in Tickets(f, t, m)!RunStates \ {"none"}
    BY DEF Tickets!RunStates
  <2> QED BY <2>1, NotedIs
<1>2. e \in Tickets(f, t, m)!Entries /\ e.state = "open" /\ e.fresh /\ e.lists
  <2> HIDE DEF noted
  <2> QED BY <1>1, EntryListed
<1>3. v3' = [v3 EXCEPT ![r] = e]
  BY DEF Tickets!Claim
<1> HIDE DEF e, noted
<1>4. v7'[r] \in {"claim", "seized", "adopt"} /\ (v7'[r] = "claim" => Tickets(f, t, m)!Owners(r) = {})
      /\ v7' = [v7 EXCEPT ![r] = v7'[r]]
  <2> DEFINE own == Tickets(f, t, m)!Owners(r)
             h == CASE ~adopt \/ own = {}                    -> "claim"
                    [] \E o \in own : sign[o] # "none" -> "seized"
                    [] OTHER                                 -> "adopt"
  <2>1. v7' = [v7 EXCEPT ![r] = h] /\ (own = {} \/ adopt)
    BY DEF Tickets!Claim, Tickets!Granted
  <2>2. h \in {"claim", "seized", "adopt"} /\ (h = "claim" => own = {})
    <3> HIDE DEF own
    <3>1. CASE own = {}
      <4>1. h = "claim"
        BY <3>1
      <4> QED BY <4>1, <3>1
    <3>2. CASE own # {} /\ \E o \in own : sign[o] # "none"
      <4>1. h = "seized"
        BY <3>2, <2>1
      <4> QED BY <4>1
    <3>3. CASE own # {} /\ ~\E o \in own : sign[o] # "none"
      <4>1. h = "adopt"
        BY <3>3, <2>1
      <4> QED BY <4>1
    <3> QED BY <3>1, <3>2, <3>3
  <2> HIDE DEF h
  <2> QED BY <2>1, <2>2 DEF Tickets!TypeOK
<1>5. Tickets(f, t, m)!TypeOK'
  <2>1. v3' \in [Roots -> Tickets(f, t, m)!Entries \cup {Nothing}]
    BY <1>2, <1>3 DEF Tickets!TypeOK
  <2>2. v4' \in [Roots -> Tickets(f, t, m)!Steps]
    BY DEF Tickets!Claim, Tickets!TypeOK, Tickets!Steps
  <2>3. v7' \in [Roots -> {"none", "claim", "adopt", "seized", "resumed", "added", "lost"}]
    BY <1>4 DEF Tickets!TypeOK
  <2> QED BY <2>1, <2>2, <2>3 DEF Tickets!Claim, Tickets!TypeOK
<1>6. Apart(r)
  BY <1>3, <1>4 DEF Apart, Tickets!Claim, Tickets!TypeOK
<1>7. Sole(r)
  <2>1. v4[r] # "no" /\ v1' = v1 /\ v2' = v2 /\ v4'[r] = "claimed"
    BY DEF Tickets!Claim, Tickets!TypeOK
  <2>2. HoldsAt(r)'
    <3>1. v3'[r] # Nothing
      BY <1>2, <1>3, NothingIsNoEntry DEF Tickets!TypeOK
    <3> QED BY <1>2, <1>3, <2>1, <3>1 DEF HoldsAt, ClaimsHeld, Tickets!TypeOK
  <2>3. v7'[r] = "claim" => \A s \in Roots \ {r} : ~HoldsAt(s)
    BY <1>4, ClaimsAndHolds DEF Tickets!Owners
  <2> QED BY <2>1, <2>2, <2>3 DEF Sole, ClaimsAt, ClaimsHeld
<1> QED BY <1>5, <1>6, <1>7, AtOneRoot DEF Apart, Sole

LEMMA TicketsRefuse ==
  ASSUME NEW f, NEW t, NEW m, TicketsAssumption(m), NEW r \in Roots, NEW adopt \in BOOLEAN, NEW sign,
         Tickets(f, t, m)!TypeOK, ClaimsHeld, Tickets(f, t, m)!Refuse(r, adopt, sign)
  PROVE  Tickets(f, t, m)!TypeOK' /\ ClaimsHeld'
<1>1. Tickets(f, t, m)!TypeOK'
  BY DEF Tickets!Refuse, Tickets!TypeOK, Tickets!Steps
<1>2. Apart(r)
  BY DEF Apart, Tickets!Refuse, Tickets!TypeOK
<1>3. Sole(r)
  BY DEF Sole, ClaimsAt, HoldsAt, ClaimsHeld, Tickets!Refuse, Tickets!TypeOK
<1> QED BY <1>1, <1>2, <1>3, AtOneRoot DEF Apart, Sole

LEMMA TicketsCommit ==
  ASSUME NEW f, NEW t, NEW m, TicketsAssumption(m), NEW r \in Roots,
         Tickets(f, t, m)!TypeOK, ClaimsHeld, Tickets(f, t, m)!Commit(r)
  PROVE  Tickets(f, t, m)!TypeOK' /\ ClaimsHeld'
<1>1. PICK b \in BOOLEAN : b = (v4[r] = "claimed")
  OBVIOUS
<1>2. v2' = [v2 EXCEPT ![r] = [stage |-> "early", closed |-> FALSE, lists |-> b]]
  BY <1>1 DEF Tickets!Commit, Tickets!Claimed
<1>3. Tickets(f, t, m)!TypeOK'
  BY <1>2 DEF Tickets!Commit, Tickets!TypeOK, Tickets!Runs, Tickets!Steps
<1>4. Apart(r)
  BY <1>2 DEF Apart, Tickets!Commit, Tickets!TypeOK
<1>5. Sole(r)
  <2>1. /\ v2'[r].stage = "early" /\ ~v2'[r].closed /\ (v2'[r].lists => v4[r] = "claimed")
        /\ v1' = v1 /\ v3' = v3 /\ v4'[r] = "no" /\ v7' = v7
    <3>1. b => v4[r] = "claimed"
      BY <1>1
    <3>2. v2'[r] = [stage |-> "early", closed |-> FALSE, lists |-> b]
      BY <1>2 DEF Tickets!TypeOK
    <3>3. v1' = v1 /\ v3' = v3 /\ v4'[r] = "no" /\ v7' = v7
      BY DEF Tickets!Commit, Tickets!TypeOK
    <3> QED BY <3>1, <3>2, <3>3
  <2> QED BY <2>1 DEF Sole, ClaimsAt, HoldsAt, ClaimsHeld
<1> QED BY <1>3, <1>4, <1>5, AtOneRoot DEF Apart, Sole

LEMMA TicketsKillInit ==
  ASSUME NEW f, NEW t, NEW m, TicketsAssumption(m), NEW r \in Roots,
         Tickets(f, t, m)!TypeOK, ClaimsHeld, Tickets(f, t, m)!KillInit(r)
  PROVE  Tickets(f, t, m)!TypeOK' /\ ClaimsHeld'
<1>1. Tickets(f, t, m)!TypeOK'
  BY DEF Tickets!KillInit, Tickets!Trouble, Tickets!TypeOK, Tickets!Steps, TicketsAssumption
<1>2. Apart(r)
  BY DEF Apart, Tickets!KillInit, Tickets!TypeOK
<1>3. Sole(r)
  BY DEF Sole, ClaimsAt, HoldsAt, Tickets!KillInit, Tickets!TypeOK
<1> QED BY <1>1, <1>2, <1>3, AtOneRoot DEF Apart, Sole

-----------------------------------------------------------------------------
(* The ends of runs, and what brings them back. *)

LEMMA TicketsAdvance ==
  ASSUME NEW f, NEW t, NEW m, TicketsAssumption(m), NEW r \in Roots, NEW stage \in Tickets(f, t, m)!Late,
         Tickets(f, t, m)!TypeOK, ClaimsHeld, Tickets(f, t, m)!Advance(r, stage)
  PROVE  Tickets(f, t, m)!TypeOK' /\ ClaimsHeld'
<1>1. v9' \in 0..m
  <2>1. v9' = v9 \/ (v9 < m /\ v9' = v9 + 1)
    BY DEF Tickets!Advance, Tickets!Trouble
  <2> QED BY <2>1 DEF Tickets!TypeOK, TicketsAssumption
<1>2. v2' \in [Roots -> Tickets(f, t, m)!Runs]
  BY DEF Tickets!Advance, Tickets!TypeOK, Tickets!Runs
<1>3. v5' \in [Roots -> SUBSET Tickets(f, t, m)!Ended]
  BY DEF Tickets!Advance, Tickets!TypeOK, Tickets!Ended
<1>4. Tickets(f, t, m)!TypeOK'
  BY <1>1, <1>2, <1>3 DEF Tickets!Advance, Tickets!TypeOK
<1>5. Apart(r)
  BY DEF Apart, Tickets!Advance, Tickets!TypeOK
<1>6. Sole(r)
  BY DEF Sole, ClaimsAt, Tickets!Advance, Tickets!Free, Tickets!TypeOK
<1> QED BY <1>4, <1>5, <1>6, AtOneRoot DEF Apart, Sole

LEMMA TicketsCloseRun ==
  ASSUME NEW f, NEW t, NEW m, TicketsAssumption(m), NEW r \in Roots,
         Tickets(f, t, m)!TypeOK, ClaimsHeld, Tickets(f, t, m)!CloseRun(r)
  PROVE  Tickets(f, t, m)!TypeOK' /\ ClaimsHeld'
<1>1. v9' \in 0..m
  BY DEF Tickets!CloseRun, Tickets!Trouble, Tickets!TypeOK, TicketsAssumption
<1>2. v2' \in [Roots -> Tickets(f, t, m)!Runs]
  BY DEF Tickets!CloseRun, Tickets!TypeOK, Tickets!Runs
<1>3. Tickets(f, t, m)!TypeOK'
  BY <1>1, <1>2 DEF Tickets!CloseRun, Tickets!TypeOK
<1>4. Apart(r)
  BY DEF Apart, Tickets!CloseRun, Tickets!TypeOK
<1>5. Sole(r)
  BY DEF Sole, ClaimsAt, Tickets!CloseRun, Tickets!Free, Tickets!TypeOK
<1> QED BY <1>3, <1>4, <1>5, AtOneRoot DEF Apart, Sole

\* Steps that change neither runs nor entries nor claims.
LEMMA ClaimsUntouched ==
  ASSUME ClaimsHeld, v1' = v1, v2' = v2, v3' = v3, v4' = v4, v7' = v7
  PROVE  ClaimsHeld'
BY DEF ClaimsHeld, ClaimsAt, HoldsAt

LEMMA TicketsCloses ==
  ASSUME NEW f, NEW t, NEW m, TicketsAssumption(m), NEW r \in Roots,
         Tickets(f, t, m)!TypeOK, ClaimsHeld, Tickets(f, t, m)!Closes(r)
  PROVE  Tickets(f, t, m)!TypeOK' /\ ClaimsHeld'
<1>1. Tickets(f, t, m)!TypeOK'
  BY DEF Tickets!Closes, Tickets!TypeOK, Tickets!Ended
<1>2. ClaimsHeld'
  BY ClaimsUntouched DEF Tickets!Closes
<1> QED BY <1>1, <1>2

LEMMA TicketsDropNote ==
  ASSUME NEW f, NEW t, NEW m, TicketsAssumption(m), NEW r \in Roots, NEW state \in Tickets(f, t, m)!Ended,
         Tickets(f, t, m)!TypeOK, ClaimsHeld, Tickets(f, t, m)!DropNote(r, state)
  PROVE  Tickets(f, t, m)!TypeOK' /\ ClaimsHeld'
<1>1. v9' \in 0..m
  BY DEF Tickets!DropNote, Tickets!Trouble, Tickets!TypeOK, TicketsAssumption
<1>2. v5' \in [Roots -> SUBSET Tickets(f, t, m)!Ended]
  BY DEF Tickets!DropNote, Tickets!TypeOK
<1>3. Tickets(f, t, m)!TypeOK'
  BY <1>1, <1>2 DEF Tickets!DropNote, Tickets!TypeOK
<1>4. ClaimsHeld'
  BY ClaimsUntouched DEF Tickets!DropNote
<1> QED BY <1>3, <1>4

\* What losing some roots' claims does.
LEMMA LoseIs ==
  ASSUME NEW f, NEW t, NEW m, Tickets(f, t, m)!TypeOK, NEW roots, Tickets(f, t, m)!Lose(roots)
  PROVE  /\ v7' \in [Roots -> {"none", "claim", "adopt", "seized", "resumed", "added", "lost"}]
         /\ \A r \in Roots : v7'[r] = IF r \in roots THEN "lost" ELSE v7[r]
BY DEF Tickets!Lose, Tickets!TypeOK

LEMMA TicketsNote ==
  ASSUME NEW f, NEW t, NEW m, TicketsAssumption(m), NEW r \in Roots, NEW state \in Tickets(f, t, m)!Ended,
         Tickets(f, t, m)!TypeOK, ClaimsHeld, Tickets(f, t, m)!Note(r, state)
  PROVE  Tickets(f, t, m)!TypeOK' /\ ClaimsHeld'
<1> DEFINE noted == Tickets(f, t, m)!Noted(r, state)
           lost  == {r} \cap {s \in Roots : Tickets(f, t, m)!Claimed(s)}
<1>1. noted \in Tickets(f, t, m)!Entries
  <2>1. state \in Tickets(f, t, m)!RunStates \ {"none"}
    BY DEF Tickets!RunStates, Tickets!Ended
  <2> QED BY <2>1, NotedIs
<1>2. v3' = [v3 EXCEPT ![r] = noted] /\ Tickets(f, t, m)!Lose(lost)
  BY DEF Tickets!Note
<1>3. \A s \in Roots : s \in lost <=> s = r /\ v4[s] = "claimed"
  BY DEF Tickets!Claimed
<1> HIDE DEF noted, lost
<1>4. /\ v7' \in [Roots -> {"none", "claim", "adopt", "seized", "resumed", "added", "lost"}]
      /\ \A s \in Roots : v7'[s] = IF s \in lost THEN "lost" ELSE v7[s]
  BY <1>2, LoseIs
<1>5. Tickets(f, t, m)!TypeOK'
  <2>1. v3' \in [Roots -> Tickets(f, t, m)!Entries \cup {Nothing}]
    BY <1>1, <1>2 DEF Tickets!TypeOK
  <2>2. v5' \in [Roots -> SUBSET Tickets(f, t, m)!Ended]
    BY DEF Tickets!Note, Tickets!TypeOK
  <2> QED BY <1>4, <2>1, <2>2 DEF Tickets!Note, Tickets!TypeOK
<1>6. v1' = v1 /\ v2' = v2 /\ v4' = v4
  BY DEF Tickets!Note
<1>7. Apart(r)
  BY <1>2, <1>3, <1>4, <1>6 DEF Apart, Tickets!TypeOK
<1>8. Sole(r)
  <2>1. v3'[r] # Nothing
    BY <1>1, <1>2, NothingIsNoEntry DEF Tickets!TypeOK
  <2>2. ClaimsAt(r)' => ClaimsAt(r) /\ v4[r] # "claimed"
    BY <1>3, <1>4, <1>6 DEF ClaimsAt
  <2> QED BY <1>6, <2>1, <2>2 DEF Sole, ClaimsAt, HoldsAt, ClaimsHeld
<1> QED BY <1>5, <1>7, <1>8, AtOneRoot DEF Apart, Sole

LEMMA TicketsResume ==
  ASSUME NEW f, NEW t, NEW m, TicketsAssumption(m), NEW r \in Roots,
         Tickets(f, t, m)!TypeOK, ClaimsHeld, Tickets(f, t, m)!Resume(r)
  PROVE  Tickets(f, t, m)!TypeOK' /\ ClaimsHeld'
<1>1. v9' \in 0..m
  BY DEF Tickets!Resume, Tickets!Trouble, Tickets!TypeOK, TicketsAssumption
<1>2. /\ v2' \in [Roots -> Tickets(f, t, m)!Runs] /\ v2'[r].lists = v2[r].lists
      /\ \A s \in Roots \ {r} : v2'[s] = v2[s]
  <2>1. CASE v2' = [v2 EXCEPT ![r].closed = FALSE]
    BY <2>1 DEF Tickets!TypeOK, Tickets!Runs
  <2>2. CASE v2' = [v2 EXCEPT ![r].stage = "early"]
    BY <2>2 DEF Tickets!TypeOK, Tickets!Runs
  <2> QED BY <2>1, <2>2 DEF Tickets!Resume
<1>3. v7' = [v7 EXCEPT ![r] = IF v2[r].lists THEN "resumed" ELSE v7[r]] /\ v4[r] = "no"
      /\ v1' = v1 /\ v3' = v3 /\ v4' = v4
  BY DEF Tickets!Resume, Tickets!Free
<1>4. Tickets(f, t, m)!TypeOK'
  BY <1>1, <1>2, <1>3 DEF Tickets!Resume, Tickets!TypeOK
<1>5. Apart(r)
  BY <1>2, <1>3 DEF Apart, Tickets!TypeOK
<1>6. Sole(r)
  BY <1>2, <1>3 DEF Sole, ClaimsAt, Tickets!TypeOK
<1> QED BY <1>4, <1>5, <1>6, AtOneRoot DEF Apart, Sole

LEMMA TicketsAddTicket ==
  ASSUME NEW f, NEW t, NEW m, TicketsAssumption(m), NEW r \in Roots,
         Tickets(f, t, m)!TypeOK, ClaimsHeld, Tickets(f, t, m)!AddTicket(r)
  PROVE  Tickets(f, t, m)!TypeOK' /\ ClaimsHeld'
<1>1. v9' \in 0..m
  BY DEF Tickets!AddTicket, Tickets!Trouble, Tickets!TypeOK, TicketsAssumption
<1>2. v2' \in [Roots -> Tickets(f, t, m)!Runs] /\ \A s \in Roots \ {r} : v2'[s] = v2[s]
  <2> DEFINE w == [v2 EXCEPT ![r].lists = TRUE]
  <2>1. w \in [Roots -> Tickets(f, t, m)!Runs] /\ \A s \in Roots \ {r} : w[s] = v2[s]
    BY DEF Tickets!TypeOK, Tickets!Runs
  <2>2. v2' = [w EXCEPT ![r].stage = "early"]
    BY DEF Tickets!AddTicket
  <2> HIDE DEF w
  <2> QED BY <2>1, <2>2 DEF Tickets!Runs
<1>3. Tickets(f, t, m)!TypeOK'
  BY <1>1, <1>2 DEF Tickets!AddTicket, Tickets!TypeOK
<1>4. Apart(r)
  BY <1>2 DEF Apart, Tickets!AddTicket, Tickets!TypeOK
<1>5. Sole(r)
  BY DEF Sole, ClaimsAt, Tickets!AddTicket, Tickets!Free, Tickets!TypeOK
<1> QED BY <1>3, <1>4, <1>5, AtOneRoot DEF Apart, Sole

LEMMA TicketsRemoveTicket ==
  ASSUME NEW f, NEW t, NEW m, TicketsAssumption(m), NEW r \in Roots,
         Tickets(f, t, m)!TypeOK, ClaimsHeld, Tickets(f, t, m)!RemoveTicket(r)
  PROVE  Tickets(f, t, m)!TypeOK' /\ ClaimsHeld'
<1>1. v9' \in 0..m
  BY DEF Tickets!RemoveTicket, Tickets!Trouble, Tickets!TypeOK, TicketsAssumption
<1>2. v2' \in [Roots -> Tickets(f, t, m)!Runs]
  BY DEF Tickets!RemoveTicket, Tickets!TypeOK, Tickets!Runs
<1>3. Tickets(f, t, m)!TypeOK'
  BY <1>1, <1>2 DEF Tickets!RemoveTicket, Tickets!TypeOK
<1>4. Apart(r)
  BY DEF Apart, Tickets!RemoveTicket, Tickets!TypeOK
<1>5. Sole(r)
  BY DEF Sole, ClaimsAt, Tickets!RemoveTicket, Tickets!Free, Tickets!TypeOK
<1> QED BY <1>3, <1>4, <1>5, AtOneRoot DEF Apart, Sole

-----------------------------------------------------------------------------
(* The register, and the builds that read the runs. *)

\* A step that gives nobody a claim keeps the claims held if they still are.
LEMMA AtEveryRoot ==
  ASSUME ClaimsHeld, v1' = v1, v2' = v2, v4' = v4,
         \A r \in Roots : ClaimsAt(r)' => ClaimsAt(r) /\ HoldsAt(r)'
  PROVE  ClaimsHeld'
<1>1. \A r, s \in Roots : r # s => ~(ClaimsAt(r)' /\ ClaimsAt(s)')
  BY DEF ClaimsHeld
<1>2. \A s \in Roots : v4'[s] # "no" => v1'[s] /\ v2'[s] = [stage |-> "none", closed |-> FALSE, lists |-> FALSE]
  BY DEF ClaimsHeld
<1> QED BY <1>1, <1>2 DEF ClaimsHeld

LEMMA DerivedIs ==
  ASSUME NEW f, NEW t, NEW m, TicketsAssumption(m), NEW e \in Tickets(f, t, m)!Entries,
         NEW s \in Tickets(f, t, m)!RunStates
  PROVE  /\ Tickets(f, t, m)!Derived(e, s) \in Tickets(f, t, m)!Entries
         /\ Tickets(f, t, m)!Derived(e, s).lists = e.lists
         /\ s = "none" => Tickets(f, t, m)!Derived(e, s) = e
<1>1. e # Nothing
  BY NothingIsNoEntry
<1>2. CASE s = "none" \/ e.state = s
  <2>1. Tickets(f, t, m)!Derived(e, s) = e
    BY <1>1, <1>2 DEF Tickets!Derived
  <2> QED BY <2>1
<1>3. CASE ~(s = "none" \/ e.state = s)
  <2>1. Tickets(f, t, m)!Derived(e, s) = WithState(e, s)
    BY <1>1, <1>3 DEF Tickets!Derived, WithState
  <2>2. s \in Tickets(f, t, m)!RunStates \ {"none"}
    BY <1>3
  <2> QED BY <1>3, <2>1, <2>2, EntryNoted
<1> QED BY <1>2, <1>3

LEMMA TicketsRegister ==
  ASSUME NEW f, NEW t, NEW m, TicketsAssumption(m), NEW r \in Roots,
         Tickets(f, t, m)!TypeOK, ClaimsHeld, Tickets(f, t, m)!Register(r)
  PROVE  Tickets(f, t, m)!TypeOK' /\ ClaimsHeld'
<1> DEFINE e == IF v3[r] = Nothing THEN Tickets(f, t, m)!NewEntry ELSE v3[r]
           s == Tickets(f, t, m)!RunState(r)
           d == Tickets(f, t, m)!Derived(e, s)
<1>1. e \in Tickets(f, t, m)!Entries
  BY EntryIsNew DEF Tickets!TypeOK
<1>2. s \in Tickets(f, t, m)!RunStates /\ (s = "none" <=> v2[r].stage = "none")
  BY RunStateIs DEF Tickets!TypeOK
<1>3. v3' = [v3 EXCEPT ![r] = d] /\ d # v3[r] /\ v1[r]
  BY DEF Tickets!Register, Tickets!Registered
<1>4. v3[r] # Nothing => e = v3[r]
  OBVIOUS
<1> HIDE DEF e, s
<1>5. d \in Tickets(f, t, m)!Entries /\ (s = "none" => d = e)
  BY <1>1, <1>2, DerivedIs
<1> HIDE DEF d
<1>6. v1' = v1 /\ v2' = v2 /\ v4' = v4 /\ v7' = v7
  BY DEF Tickets!Register
<1>7. Tickets(f, t, m)!TypeOK'
  <2>1. v3' \in [Roots -> Tickets(f, t, m)!Entries \cup {Nothing}]
    BY <1>3, <1>5 DEF Tickets!TypeOK
  <2> QED BY <2>1 DEF Tickets!Register, Tickets!TypeOK
<1>8. Apart(r)
  BY <1>3, <1>6 DEF Apart, Tickets!TypeOK
<1>9. Sole(r)
  <2>1. v3'[r] # Nothing
    BY <1>3, <1>5, NothingIsNoEntry DEF Tickets!TypeOK
  <2>2. ClaimsAt(r)' => ClaimsAt(r) /\ HoldsAt(r)
    BY <1>6 DEF ClaimsAt, ClaimsHeld
  <2>3. ClaimsAt(r) => v2[r].stage # "none"
    BY <1>2, <1>3, <1>4, <1>5 DEF ClaimsAt, HoldsAt, ClaimsHeld
  <2> QED BY <1>3, <1>6, <2>1, <2>2, <2>3 DEF Sole, HoldsAt, ClaimsHeld
<1> QED BY <1>7, <1>8, <1>9, AtOneRoot DEF Apart, Sole

LEMMA TicketsUnregister ==
  ASSUME NEW f, NEW t, NEW m, TicketsAssumption(m), NEW r \in Roots,
         Tickets(f, t, m)!TypeOK, ClaimsHeld, Tickets(f, t, m)!Unregister(r)
  PROVE  Tickets(f, t, m)!TypeOK' /\ ClaimsHeld'
<1>1. v9' \in 0..m
  BY DEF Tickets!Unregister, Tickets!Trouble, Tickets!TypeOK, TicketsAssumption
<1>2. /\ v7' \in [Roots -> {"none", "claim", "adopt", "seized", "resumed", "added", "lost"}]
      /\ \A s \in Roots : v7'[s] = IF s \in {r} THEN "lost" ELSE v7[s]
  BY LoseIs DEF Tickets!Unregister
<1>3. Tickets(f, t, m)!TypeOK'
  BY <1>1, <1>2 DEF Tickets!Unregister, Tickets!TypeOK
<1>4. Apart(r)
  BY <1>2 DEF Apart, Tickets!Unregister, Tickets!TypeOK
<1>5. Sole(r)
  BY <1>2 DEF Sole, ClaimsAt, ClaimsHeld, Tickets!Unregister
<1> QED BY <1>3, <1>4, <1>5, AtOneRoot DEF Apart, Sole

LEMMA TicketsGraceEnds ==
  ASSUME NEW f, NEW t, NEW m, TicketsAssumption(m), NEW r \in Roots,
         Tickets(f, t, m)!TypeOK, ClaimsHeld, Tickets(f, t, m)!GraceEnds(r)
  PROVE  Tickets(f, t, m)!TypeOK' /\ ClaimsHeld'
<1> DEFINE lost == {r} \cap {s \in Roots : Tickets(f, t, m)!Claimed(s)}
           e == [v3[r] EXCEPT !.fresh = FALSE]
<1>1. Tickets(f, t, m)!Lose(lost) /\ v3[r] # Nothing /\ v3' = [v3 EXCEPT ![r] = e]
  BY DEF Tickets!GraceEnds
<1>2. \A s \in Roots : s \in lost <=> s = r /\ v4[s] = "claimed"
  BY DEF Tickets!Claimed
<1>3. e \in Tickets(f, t, m)!Entries
  BY <1>1 DEF Tickets!TypeOK, Tickets!Entries
<1> HIDE DEF lost, e
<1>4. /\ v7' \in [Roots -> {"none", "claim", "adopt", "seized", "resumed", "added", "lost"}]
      /\ \A s \in Roots : v7'[s] = IF s \in lost THEN "lost" ELSE v7[s]
  BY <1>1, LoseIs
<1>5. v1' = v1 /\ v2' = v2 /\ v4' = v4
  BY DEF Tickets!GraceEnds
<1>6. Tickets(f, t, m)!TypeOK'
  <2>1. v3' \in [Roots -> Tickets(f, t, m)!Entries \cup {Nothing}]
    BY <1>1, <1>3 DEF Tickets!TypeOK
  <2> QED BY <1>4, <2>1 DEF Tickets!GraceEnds, Tickets!TypeOK
<1>7. Apart(r)
  BY <1>1, <1>2, <1>4, <1>5 DEF Apart, Tickets!TypeOK
<1>8. Sole(r)
  <2>1. v3'[r] # Nothing
    BY <1>1, <1>3, NothingIsNoEntry DEF Tickets!TypeOK
  <2>2. ClaimsAt(r)' => ClaimsAt(r) /\ v4[r] # "claimed"
    BY <1>2, <1>4, <1>5 DEF ClaimsAt
  <2> QED BY <1>5, <2>1, <2>2 DEF Sole, ClaimsAt, HoldsAt, ClaimsHeld
<1> QED BY <1>6, <1>7, <1>8, AtOneRoot DEF Apart, Sole

LEMMA TicketsStaysAway ==
  ASSUME NEW f, NEW t, NEW m, TicketsAssumption(m), NEW r \in Roots,
         Tickets(f, t, m)!TypeOK, ClaimsHeld, Tickets(f, t, m)!StaysAway(r)
  PROVE  Tickets(f, t, m)!TypeOK' /\ ClaimsHeld'
<1> DEFINE e == [v3[r] EXCEPT !.missing = "due"]
<1>1. ~v1[r] /\ v3[r] # Nothing /\ v3' = [v3 EXCEPT ![r] = e]
  BY DEF Tickets!StaysAway
<1>2. e \in Tickets(f, t, m)!Entries
  BY <1>1 DEF Tickets!TypeOK, Tickets!Entries
<1> HIDE DEF e
<1>3. Tickets(f, t, m)!TypeOK'
  <2>1. v3' \in [Roots -> Tickets(f, t, m)!Entries \cup {Nothing}]
    BY <1>1, <1>2 DEF Tickets!TypeOK
  <2> QED BY <2>1 DEF Tickets!StaysAway, Tickets!TypeOK
<1>4. Apart(r)
  BY <1>1 DEF Apart, Tickets!StaysAway, Tickets!TypeOK
<1>5. Sole(r)
  BY <1>1 DEF Sole, ClaimsAt, HoldsAt, ClaimsHeld, Tickets!StaysAway
<1> QED BY <1>3, <1>4, <1>5, AtOneRoot DEF Apart, Sole

LEMMA TicketsGoesAway ==
  ASSUME NEW f, NEW t, NEW m, TicketsAssumption(m), NEW r \in Roots,
         Tickets(f, t, m)!TypeOK, ClaimsHeld, Tickets(f, t, m)!GoesAway(r)
  PROVE  Tickets(f, t, m)!TypeOK' /\ ClaimsHeld'
<1>1. v9' \in 0..m
  BY DEF Tickets!GoesAway, Tickets!Trouble, Tickets!TypeOK, TicketsAssumption
<1>2. /\ v7' \in [Roots -> {"none", "claim", "adopt", "seized", "resumed", "added", "lost"}]
      /\ \A s \in Roots : v7'[s] = IF s \in {r} THEN "lost" ELSE v7[s]
  BY LoseIs DEF Tickets!GoesAway
<1>3. Tickets(f, t, m)!TypeOK'
  BY <1>1, <1>2 DEF Tickets!GoesAway, Tickets!TypeOK
<1>4. Apart(r)
  BY <1>2 DEF Apart, Tickets!GoesAway, Tickets!TypeOK
<1>5. Sole(r)
  BY <1>2 DEF Sole, ClaimsAt, Tickets!GoesAway, Tickets!Free
<1> QED BY <1>3, <1>4, <1>5, AtOneRoot DEF Apart, Sole

LEMMA TicketsComesBack ==
  ASSUME NEW f, NEW t, NEW m, TicketsAssumption(m), NEW r \in Roots,
         Tickets(f, t, m)!TypeOK, ClaimsHeld, Tickets(f, t, m)!ComesBack(r)
  PROVE  Tickets(f, t, m)!TypeOK' /\ ClaimsHeld'
<1>1. Tickets(f, t, m)!TypeOK'
  BY DEF Tickets!ComesBack, Tickets!TypeOK
<1>2. Apart(r)
  BY DEF Apart, Tickets!ComesBack, Tickets!TypeOK
<1>3. Sole(r)
  BY DEF Sole, ClaimsAt, HoldsAt, ClaimsHeld, Tickets!ComesBack, Tickets!TypeOK
<1> QED BY <1>1, <1>2, <1>3, AtOneRoot DEF Apart, Sole

LEMMA TicketsBuildBegins ==
  ASSUME NEW f, NEW t, NEW m, TicketsAssumption(m),
         Tickets(f, t, m)!TypeOK, ClaimsHeld, Tickets(f, t, m)!BuildBegins
  PROVE  Tickets(f, t, m)!TypeOK' /\ ClaimsHeld'
<1> DEFINE lost == {r \in Roots : Tickets(f, t, m)!Forgets(r)}
<1>1. /\ v3' = [r \in Roots |-> Tickets(f, t, m)!Swept(r)] /\ Tickets(f, t, m)!Lose(lost)
      /\ v1' = v1 /\ v2' = v2 /\ v4' = v4
  BY DEF Tickets!BuildBegins
<1>2. /\ v7' \in [Roots -> {"none", "claim", "adopt", "seized", "resumed", "added", "lost"}]
      /\ \A s \in Roots : v7'[s] = IF s \in lost THEN "lost" ELSE v7[s]
  <2> HIDE DEF lost
  <2> QED BY <1>1, LoseIs
<1>3. ASSUME NEW r \in Roots
      PROVE  /\ v3'[r] \in Tickets(f, t, m)!Entries \cup {Nothing}
             /\ v3[r] # Nothing /\ r \notin lost =>
                  /\ v3'[r] \in Tickets(f, t, m)!Entries
                  /\ v3'[r].state = v3[r].state /\ v3'[r].lists = v3[r].lists /\ v3'[r].fresh = v3[r].fresh
  <2> DEFINE missing == IF v1[r] THEN "no" ELSE IF v3[r].missing = "no" THEN "marked" ELSE v3[r].missing
  <2>1. CASE v3[r] = Nothing \/ r \in lost
    BY <1>1, <2>1 DEF Tickets!Swept
  <2>2. CASE ~(v3[r] = Nothing \/ r \in lost)
    <3>1. v3[r] \in Tickets(f, t, m)!Entries
      BY <2>2 DEF Tickets!TypeOK
    <3>2. v3'[r] = [v3[r] EXCEPT !.missing = missing]
      BY <1>1, <2>2 DEF Tickets!Swept
    <3>3. missing \in {"no", "marked", "due"}
      BY <3>1 DEF Tickets!Entries
    <3> HIDE DEF missing
    <3> QED BY <2>2, <3>1, <3>2, <3>3 DEF Tickets!Entries
  <2> QED BY <2>1, <2>2
<1>4. Tickets(f, t, m)!TypeOK'
  <2>1. v3' \in [Roots -> Tickets(f, t, m)!Entries \cup {Nothing}]
    BY <1>1, <1>3
  <2>2. v6' \in [Roots -> Tickets(f, t, m)!RunStates \cup {"unread"}]
    BY DEF Tickets!BuildBegins, Tickets!RunStates
  <2> QED BY <1>2, <2>1, <2>2 DEF Tickets!BuildBegins, Tickets!TypeOK
<1>5. \A r \in Roots : ClaimsAt(r)' => ClaimsAt(r) /\ HoldsAt(r)'
  <2> SUFFICES ASSUME NEW r \in Roots, ClaimsAt(r)' PROVE ClaimsAt(r) /\ HoldsAt(r)'
    OBVIOUS
  <2>1. r \notin lost /\ ClaimsAt(r)
    BY <1>1, <1>2 DEF ClaimsAt
  <2>2. HoldsAt(r)
    BY <2>1 DEF ClaimsHeld
  <2>3. v3'[r] # Nothing /\ v3'[r].state = v3[r].state /\ v3'[r].lists = v3[r].lists /\ v3'[r].fresh = v3[r].fresh
    BY <1>3, <2>1, <2>2, NothingIsNoEntry DEF HoldsAt
  <2> QED BY <1>1, <2>1, <2>2, <2>3 DEF HoldsAt
<1> QED BY <1>1, <1>4, <1>5, AtEveryRoot

LEMMA TicketsBuildReads ==
  ASSUME NEW f, NEW t, NEW m, TicketsAssumption(m), NEW r \in Roots,
         Tickets(f, t, m)!TypeOK, ClaimsHeld, Tickets(f, t, m)!BuildReads(r)
  PROVE  Tickets(f, t, m)!TypeOK' /\ ClaimsHeld'
<1>1. Tickets(f, t, m)!StateOf(r) \in Tickets(f, t, m)!RunStates
  <2>1. Tickets(f, t, m)!RunState(r) \in Tickets(f, t, m)!RunStates
    BY RunStateIs DEF Tickets!TypeOK
  <2> QED BY <2>1 DEF Tickets!StateOf, Tickets!RunStates
<1>2. Tickets(f, t, m)!TypeOK'
  BY <1>1 DEF Tickets!BuildReads, Tickets!TypeOK
<1>3. ClaimsHeld'
  BY ClaimsUntouched DEF Tickets!BuildReads
<1> QED BY <1>2, <1>3

LEMMA TicketsBuildEnds ==
  ASSUME NEW f, NEW t, NEW m, TicketsAssumption(m),
         Tickets(f, t, m)!TypeOK, ClaimsHeld, Tickets(f, t, m)!BuildEnds
  PROVE  Tickets(f, t, m)!TypeOK' /\ ClaimsHeld'
<1> DEFINE lost == {r \in Roots : Tickets(f, t, m)!Claimed(r) /\ Tickets(f, t, m)!Synced(r) # v3[r]}
<1>1. /\ v3' = [r \in Roots |-> Tickets(f, t, m)!Synced(r)] /\ Tickets(f, t, m)!Lose(lost)
      /\ v1' = v1 /\ v2' = v2 /\ v4' = v4 /\ v6' = Nothing
  BY DEF Tickets!BuildEnds
<1>2. /\ v7' \in [Roots -> {"none", "claim", "adopt", "seized", "resumed", "added", "lost"}]
      /\ \A s \in Roots : v7'[s] = IF s \in lost THEN "lost" ELSE v7[s]
  <2> HIDE DEF lost
  <2> QED BY <1>1, LoseIs
<1>3. ASSUME NEW r \in Roots
      PROVE  /\ v3'[r] \in Tickets(f, t, m)!Entries \cup {Nothing}
             /\ v3[r] # Nothing => v3'[r] \in Tickets(f, t, m)!Entries
             /\ v4[r] = "claimed" /\ r \notin lost => v3'[r] = v3[r]
  <2>1. v3'[r] = Tickets(f, t, m)!Derived(v3[r], v6[r])
    BY <1>1 DEF Tickets!Synced
  <2>2. v6[r] \in Tickets(f, t, m)!RunStates
    BY DEF Tickets!BuildEnds, Tickets!TypeOK
  <2>3. v3[r] # Nothing => v3'[r] \in Tickets(f, t, m)!Entries
    BY <2>1, <2>2, DerivedIs DEF Tickets!TypeOK
  <2>4. v3[r] = Nothing => v3'[r] = Nothing
    BY <2>1 DEF Tickets!Derived
  <2>5. v4[r] = "claimed" /\ r \notin lost => v3'[r] = v3[r]
    BY <1>1 DEF Tickets!Claimed
  <2> QED BY <2>3, <2>4, <2>5
<1>4. Tickets(f, t, m)!TypeOK'
  <2>1. v3' \in [Roots -> Tickets(f, t, m)!Entries \cup {Nothing}]
    BY <1>1, <1>3
  <2> QED BY <1>1, <1>2, <2>1 DEF Tickets!BuildEnds, Tickets!TypeOK
<1>5. \A r \in Roots : ClaimsAt(r)' => ClaimsAt(r) /\ HoldsAt(r)'
  <2> SUFFICES ASSUME NEW r \in Roots, ClaimsAt(r)' PROVE ClaimsAt(r) /\ HoldsAt(r)'
    OBVIOUS
  <2>1. r \notin lost /\ ClaimsAt(r)
    BY <1>1, <1>2 DEF ClaimsAt
  <2>2. HoldsAt(r)
    BY <2>1 DEF ClaimsHeld
  <2>3. v3'[r] # Nothing
    BY <1>3, <2>2, NothingIsNoEntry DEF HoldsAt
  <2>4. v4[r] = "claimed" => v3'[r] = v3[r]
    BY <1>3, <2>1
  <2> QED BY <1>1, <2>1, <2>2, <2>3, <2>4 DEF HoldsAt, ClaimsAt
<1> QED BY <1>1, <1>4, <1>5, AtEveryRoot

LEMMA TicketsNext ==
  ASSUME NEW f, NEW t, NEW m, TicketsAssumption(m),
         Tickets(f, t, m)!TypeOK, ClaimsHeld, Tickets(f, t, m)!Next
  PROVE  Tickets(f, t, m)!TypeOK' /\ ClaimsHeld'
<1>1. CASE Tickets(f, t, m)!Builds
  BY <1>1, TicketsBuildBegins, TicketsBuildReads, TicketsBuildEnds DEF Tickets!Builds
<1>2. ASSUME NEW r \in Roots, Tickets(f, t, m)!Inits(r)
      PROVE  Tickets(f, t, m)!TypeOK' /\ ClaimsHeld'
  <2>1. CASE \E adopt \in BOOLEAN, sign \in Tickets(f, t, m)!Seen(Tickets(f, t, m)!Owners(r)) :
                 Tickets(f, t, m)!Claim(r, adopt, sign) \/ Tickets(f, t, m)!Refuse(r, adopt, sign)
    BY <2>1, TicketsClaim, TicketsRefuse
  <2>2. CASE \/ Tickets(f, t, m)!Begin(r) \/ Tickets(f, t, m)!NeedsNone(r)
             \/ Tickets(f, t, m)!Commit(r) \/ Tickets(f, t, m)!KillInit(r)
    BY <2>2, TicketsBegin, TicketsNeedsNone, TicketsCommit, TicketsKillInit
  <2> QED BY <1>2, <2>1, <2>2 DEF Tickets!Inits
<1>3. ASSUME NEW r \in Roots, Tickets(f, t, m)!Ends(r)
      PROVE  Tickets(f, t, m)!TypeOK' /\ ClaimsHeld'
  <2>1. CASE \E stage \in Tickets(f, t, m)!Late : Tickets(f, t, m)!Advance(r, stage)
    BY <2>1, TicketsAdvance
  <2>2. CASE \E state \in Tickets(f, t, m)!Ended : Tickets(f, t, m)!Note(r, state) \/ Tickets(f, t, m)!DropNote(r, state)
    BY <2>2, TicketsNote, TicketsDropNote
  <2>3. CASE Tickets(f, t, m)!CloseRun(r) \/ Tickets(f, t, m)!Closes(r) \/ Tickets(f, t, m)!Resume(r)
    BY <2>3, TicketsCloseRun, TicketsCloses, TicketsResume
  <2>4. CASE Tickets(f, t, m)!AddTicket(r) \/ Tickets(f, t, m)!RemoveTicket(r)
    BY <2>4, TicketsAddTicket, TicketsRemoveTicket
  <2> QED BY <1>3, <2>1, <2>2, <2>3, <2>4 DEF Tickets!Ends
<1>4. ASSUME NEW r \in Roots, Tickets(f, t, m)!Others(r)
      PROVE  Tickets(f, t, m)!TypeOK' /\ ClaimsHeld'
  <2>1. CASE Tickets(f, t, m)!Register(r) \/ Tickets(f, t, m)!Unregister(r) \/ Tickets(f, t, m)!GraceEnds(r)
    BY <2>1, TicketsRegister, TicketsUnregister, TicketsGraceEnds
  <2>2. CASE Tickets(f, t, m)!StaysAway(r) \/ Tickets(f, t, m)!GoesAway(r) \/ Tickets(f, t, m)!ComesBack(r)
    BY <2>2, TicketsStaysAway, TicketsGoesAway, TicketsComesBack
  <2> QED BY <1>4, <2>1, <2>2 DEF Tickets!Others
<1> QED BY <1>1, <1>2, <1>3, <1>4 DEF Tickets!Next

LEMMA TicketsStart ==
  ASSUME NEW f, NEW t, NEW m, TicketsAssumption(m), Tickets(f, t, m)!Init
  PROVE  Tickets(f, t, m)!TypeOK /\ ClaimsHeld
<1> DEFINE e0 == Tickets(f, t, m)!NewEntry
           e1 == [e0 EXCEPT !.state = "open"]
           e2 == [e1 EXCEPT !.lists = TRUE]
           e3 == [e2 EXCEPT !.fresh = TRUE]
<1>1. e0 \in Tickets(f, t, m)!Entries
  BY EntryIsNew
<1>2. e1 \in Tickets(f, t, m)!Entries
  <2> HIDE DEF e0
  <2> QED BY <1>1 DEF Tickets!Entries
<1>3. e2 \in Tickets(f, t, m)!Entries
  <2> HIDE DEF e1
  <2> QED BY <1>2 DEF Tickets!Entries
<1>4. e3 \in Tickets(f, t, m)!Entries
  <2> HIDE DEF e2
  <2> QED BY <1>3 DEF Tickets!Entries
<1>5. v3 = [r \in Roots |-> IF r \in f THEN e3 ELSE Nothing]
  BY DEF Tickets!Init
<1> HIDE DEF e3
<1>6. v3 \in [Roots -> Tickets(f, t, m)!Entries \cup {Nothing}]
  BY <1>4, <1>5
<1>7. v2 \in [Roots -> Tickets(f, t, m)!Runs]
  BY DEF Tickets!Init, Tickets!NoRun, Tickets!Runs, Tickets!Late
<1>8. Tickets(f, t, m)!TypeOK
  BY <1>6, <1>7 DEF Tickets!Init, Tickets!TypeOK, Tickets!Steps, Tickets!Ended, TicketsAssumption
<1>9. ClaimsHeld
  BY DEF Tickets!Init, ClaimsHeld, ClaimsAt
<1> QED BY <1>8, <1>9

\* What the claims are held for.
LEMMA OneOwnerIs ==
  ASSUME NEW f, NEW t, NEW m, Tickets(f, t, m)!TypeOK, ClaimsHeld
  PROVE  Tickets(f, t, m)!OneOwner
<1>1. Tickets(f, t, m)!ClaimsHold
  BY ClaimsHoldIs
<1> QED BY <1>1 DEF Tickets!ClaimsHold, Tickets!Claims, Tickets!OneOwner
-----------------------------------------------------------------------------
(* VerifyReuse: each binding is paid for once.  A verify that runs holds the *)
(* lock of every binding it needs, and looked for a record of it after it    *)
(* had them, so what it still runs nobody else has recorded.                 *)

CheckAssumption == IsFiniteSet(Criteria) /\ CheckEdits \in Nat /\ CheckKills \in Nat

\* Needed and Binding as functions of what a verify has named and bound.
NeededOf(ks) == UNION {CheckTests[k] : k \in ks}
BindingOf(ks, at, cmd) ==
  [command |-> cmd, tree |-> at.tree, specs |-> {<<k, at.spec[k]>> : k \in {j \in ks : cmd \in CheckTests[j]}}]
Pays(rec, cmd, binding) ==
  rec.ok /\ rec.executed /\ rec.whole /\ cmd \in CheckTests[rec.criterion] /\ rec.binding[cmd] = binding

CheckTypes ==
  /\ v1 \in 1 .. CheckEdits + 1 /\ v2 \in [Criteria -> 1 .. CheckEdits + 1]
  /\ v4 \in [Verifies -> {"idle", "waiting", "running", "ended"}]
  /\ v5 \in [Verifies -> SUBSET Criteria] /\ v9 \in [Verifies -> SUBSET Criteria]
  /\ v7 \in [Verifies -> SUBSET Checks!Commands] /\ v13 \in [Verifies -> SUBSET Checks!Commands]
  /\ v8 \in [Verifies -> [Checks!Commands -> [ok : BOOLEAN, tree : 1 .. CheckEdits + 1] \cup {Nothing}]]
  /\ v11 \in 0 .. CheckEdits /\ v12 \in 0 .. CheckKills
  /\ DOMAIN v6 = Verifies
Recorded == \E S : v10 \in Seq(S)
LocksOwned ==
  \A b \in DOMAIN v3 : /\ v3[b] \in Verifies /\ v4[v3[b]] \in {"waiting", "running"}
                       /\ \E cmd \in Checks!Commands : b = BindingOf(v5[v3[b]], v6[v3[b]], cmd)
BindingsHeld ==
  \A v \in Verifies : v4[v] = "running" =>
      \A cmd \in NeededOf(v5[v]) : BindingOf(v5[v], v6[v], cmd) \in DOMAIN v3 /\ v3[BindingOf(v5[v], v6[v], cmd)] = v
Unpaid ==
  \A v \in Verifies \ NoCache : v4[v] = "running" =>
      \A cmd \in NeededOf(v5[v]) \ v7[v], i \in DOMAIN v10 :
          v10[i].by \notin NoCache /\ Pays(v10[i], cmd, BindingOf(v5[v], v6[v], cmd)) => v10[i].by = v
RunsOnce ==
  \A i, j \in DOMAIN v10 : \A cmd \in NeededOf(Criteria) :
      /\ v10[i].by \notin NoCache /\ v10[j].by \notin NoCache
      /\ Pays(v10[i], cmd, v10[j].binding[cmd]) /\ Pays(v10[j], cmd, v10[j].binding[cmd])
      => v10[i].by = v10[j].by
CheckInv == CheckTypes /\ Recorded /\ LocksOwned /\ BindingsHeld /\ Unpaid /\ RunsOnce

LEMMA RunsOnceIs ==
  ASSUME RunsOnce
  PROVE  Checks!EachBindingRunsOnce
<1> SUFFICES ASSUME NEW i \in DOMAIN v10, NEW j \in DOMAIN v10, NEW cmd \in Checks!Commands,
                    Checks!Sources(i, cmd), Checks!Sources(j, cmd),
                    {v10[i].by, v10[j].by} \cap NoCache = {}, v10[i].binding[cmd] = v10[j].binding[cmd]
             PROVE  v10[i].by = v10[j].by
  BY DEF Checks!EachBindingRunsOnce
<1>1. v10[i].by \notin NoCache /\ v10[j].by \notin NoCache
  OBVIOUS
<1>2. cmd \in NeededOf(Criteria)
  BY DEF NeededOf, Checks!Commands
<1>3. Pays(v10[i], cmd, v10[j].binding[cmd]) /\ Pays(v10[j], cmd, v10[j].binding[cmd])
  BY DEF Pays, Checks!Sources
<1> QED BY <1>1, <1>2, <1>3 DEF RunsOnce

LEMMA NeededIsCommands ==
  ASSUME CheckTypes, NEW v \in Verifies
  PROVE  NeededOf(v5[v]) \subseteq Checks!Commands
BY DEF CheckTypes, NeededOf, Checks!Commands

LEMMA ChecksNeeded ==
  ASSUME NEW v
  PROVE  Checks!Needed(v) = NeededOf(v5[v])
BY DEF Checks!Needed, NeededOf

LEMMA ChecksBinding ==
  ASSUME NEW v, NEW cmd
  PROVE  /\ Checks!Binding(v, cmd) = BindingOf(v5[v], v6[v], cmd)
         /\ Checks!Binding(v, cmd)' = BindingOf(v5'[v], v6'[v], cmd)
BY Zenon DEF Checks!Binding, BindingOf

LEMMA BindingOfItsCommand ==
  ASSUME NEW ks1, NEW ks2, NEW at1, NEW at2, NEW cmd1, NEW cmd2, BindingOf(ks1, at1, cmd1) = BindingOf(ks2, at2, cmd2)
  PROVE  cmd1 = cmd2
<1>1. BindingOf(ks1, at1, cmd1).command = cmd1 /\ BindingOf(ks2, at2, cmd2).command = cmd2
  BY Zenon DEF BindingOf
<1> QED BY <1>1

LEMMA RecordIs ==
  ASSUME NEW v, NEW k
  PROVE  /\ Checks!Record(v, k).by = v
         /\ Checks!Record(v, k).criterion = k
         /\ Checks!Record(v, k).executed => CheckTests[k] \cap v7[v] = {}
         /\ \A cmd \in CheckTests[k] : Checks!Record(v, k).binding[cmd] = BindingOf(v5[v], v6[v], cmd)
<1>1. Checks!Record(v, k).by = v /\ Checks!Record(v, k).criterion = k
  BY Zenon DEF Checks!Record
<1>2. Checks!Record(v, k).executed = (CheckTests[k] \cap v7[v] = {})
  BY Zenon DEF Checks!Record
<1>3. Checks!Record(v, k).binding = [cmd \in CheckTests[k] |-> Checks!Binding(v, cmd)]
  BY Zenon DEF Checks!Record
<1> QED BY <1>1, <1>2, <1>3, ChecksBinding

\* A finite set of records as a sequence holds those records and no others.
LEMMA ChecksSetToSeq ==
  ASSUME NEW S, IsFiniteSet(S)
  PROVE  Checks!SetToSeq(S) \in Seq(S)
<1>1. Checks!Cardinality(S) = Cardinality(S)
  BY Zenon DEF Cardinality, Checks!Cardinality
<1>2. Cardinality(S) \in Nat /\ ExistsBijection(1 .. Cardinality(S), S)
  BY FS_CardinalityType
<1>3. \E g \in [1 .. Cardinality(S) -> S] : Checks!IsInjective(g)
  BY <1>2 DEF ExistsBijection, Bijection, Injection, IsInjective, Checks!IsInjective
<1>4. Checks!SetToSeq(S) \in [1 .. Cardinality(S) -> S]
  BY <1>1, <1>3 DEF Checks!SetToSeq
<1> QED BY <1>2, <1>4

LEMMA RecordsAre ==
  ASSUME CheckAssumption, NEW v, NEW ks \in SUBSET Criteria
  PROVE  Checks!Records(v, ks) \in Seq({Checks!Record(v, k) : k \in ks})
<1> DEFINE S == {Checks!Record(v, k) : k \in ks}
           g == [k \in ks |-> Checks!Record(v, k)]
<1>1. IsFiniteSet(ks)
  BY FS_Subset DEF CheckAssumption
<1>2. g \in Surjection(ks, S)
  BY DEF Surjection
<1>3. IsFiniteSet(S)
  BY <1>1, <1>2, FS_Surjection DEF ExistsSurjection
<1> QED BY <1>3, ChecksSetToSeq DEF Checks!Records

\* The ledger after it has got the records of some of a verify's criteria.
LEMMA Grown ==
  ASSUME CheckAssumption, Recorded, NEW v, NEW ks \in SUBSET Criteria, v10' = v10 \o Checks!Records(v, ks)
  PROVE  /\ Recorded'
         /\ \A i \in DOMAIN v10' : \/ i \in DOMAIN v10 /\ v10'[i] = v10[i]
                                   \/ \E k \in ks : v10'[i] = Checks!Record(v, k)
<1> DEFINE R == {Checks!Record(v, k) : k \in ks}
           s == Checks!Records(v, ks)
<1>1. s \in Seq(R)
  BY RecordsAre
<1>2. PICK S : v10 \in Seq(S)
  BY DEF Recorded
<1> HIDE DEF s, R
<1>3. v10 \in Seq(S \cup R) /\ s \in Seq(S \cup R)
  BY <1>1, <1>2
<1>4. v10' \in Seq(S \cup R)
  BY <1>3 DEF s
<1>5. ASSUME NEW i \in DOMAIN v10'
      PROVE  \/ i \in DOMAIN v10 /\ v10'[i] = v10[i]
             \/ v10'[i] \in R
  BY <1>1, <1>3 DEF s
<1>6. Recorded'
  BY <1>4 DEF Recorded
<1> QED BY <1>5, <1>6 DEF R

\* What records of v add to the ledger nobody else who runs still has to run.
LEMMA PaidOnce ==
  ASSUME CheckAssumption, CheckInv, NEW v \in Verifies, v4[v] = "running",
         NEW ks \in SUBSET v5[v], v10' = v10 \o Checks!Records(v, ks),
         \A u \in Verifies : v4'[u] = "running" =>
             v4[u] = "running" /\ v5'[u] = v5[u] /\ v6'[u] = v6[u] /\ v7'[u] = v7[u]
  PROVE  Recorded' /\ Unpaid' /\ RunsOnce'
<1>1. ks \in SUBSET Criteria
  BY DEF CheckInv, CheckTypes
<1>2. /\ Recorded'
      /\ \A i \in DOMAIN v10' : \/ i \in DOMAIN v10 /\ v10'[i] = v10[i]
                                \/ \E k \in ks : v10'[i] = Checks!Record(v, k)
  BY <1>1, Grown DEF CheckInv
\* A new record that pays for a command does so under v's binding.
<1>3. ASSUME NEW k \in ks, NEW cmd, NEW b, Pays(Checks!Record(v, k), cmd, b)
      PROVE  cmd \in NeededOf(v5[v]) \ v7[v] /\ b = BindingOf(v5[v], v6[v], cmd)
  BY <1>3, RecordIs DEF Pays, NeededOf
<1>4. ASSUME NEW u \in Verifies, u # v, v4[u] = "running", NEW k \in ks, NEW cmd \in NeededOf(v5[u]),
             Pays(Checks!Record(v, k), cmd, BindingOf(v5[u], v6[u], cmd))
      PROVE  FALSE
  <2>1. BindingOf(v5[u], v6[u], cmd) = BindingOf(v5[v], v6[v], cmd) /\ cmd \in NeededOf(v5[v])
    BY <1>3, <1>4
  <2>2. v3[BindingOf(v5[u], v6[u], cmd)] = u /\ v3[BindingOf(v5[v], v6[v], cmd)] = v
    BY <1>4, <2>1 DEF CheckInv, BindingsHeld
  <2> QED BY <1>4, <2>1, <2>2
<1>5. Unpaid'
  <2> SUFFICES ASSUME NEW u \in Verifies \ NoCache, v4'[u] = "running", NEW cmd \in NeededOf(v5'[u]) \ v7'[u],
                      NEW i \in DOMAIN v10', v10'[i].by \notin NoCache, Pays(v10'[i], cmd, BindingOf(v5'[u], v6'[u], cmd))
               PROVE  v10'[i].by = u
    BY DEF Unpaid
  <2>1. v4[u] = "running" /\ v5'[u] = v5[u] /\ v6'[u] = v6[u] /\ v7'[u] = v7[u]
    OBVIOUS
  <2>2. CASE i \in DOMAIN v10 /\ v10'[i] = v10[i]
    BY <2>1, <2>2 DEF CheckInv, Unpaid
  <2>3. ASSUME NEW k \in ks, v10'[i] = Checks!Record(v, k)
        PROVE  v10'[i].by = u
    <3>1. u = v
      BY <1>4, <2>1, <2>3
    <3> QED BY <2>3, <3>1, RecordIs
  <2> QED BY <1>2, <2>2, <2>3
<1>6. RunsOnce'
  <2> SUFFICES ASSUME NEW i \in DOMAIN v10', NEW j \in DOMAIN v10', NEW cmd \in NeededOf(Criteria),
                      Pays(v10'[i], cmd, v10'[j].binding[cmd]), Pays(v10'[j], cmd, v10'[j].binding[cmd]),
                      v10'[i].by \notin NoCache, v10'[j].by \notin NoCache
               PROVE  v10'[i].by = v10'[j].by
    BY DEF RunsOnce
  <2> DEFINE b == v10'[j].binding[cmd]
  <2> HIDE DEF b
  <2>0. b = v10'[j].binding[cmd] /\ Pays(v10'[i], cmd, b) /\ Pays(v10'[j], cmd, b)
    BY DEF b
  <2>1. ASSUME NEW m \in DOMAIN v10, v10'[m] = v10[m], NEW n \in DOMAIN v10', NEW k \in ks,
               v10'[n] = Checks!Record(v, k), v10[m].by \notin NoCache, v10'[n].by \notin NoCache,
               Pays(v10[m], cmd, b), Pays(v10'[n], cmd, b)
        PROVE  v10[m].by = v10'[n].by
    <3>1. v10'[n].by = v
      BY <2>1, RecordIs
    <3>2. cmd \in NeededOf(v5[v]) \ v7[v] /\ b = BindingOf(v5[v], v6[v], cmd)
      BY <1>3, <2>1
    <3>3. v \in Verifies \ NoCache
      BY <2>1, <3>1
    <3>4. v10[m].by = v
      BY <2>1, <3>2, <3>3 DEF CheckInv, Unpaid
    <3> QED BY <3>1, <3>4
  <2>2. CASE i \in DOMAIN v10 /\ v10'[i] = v10[i] /\ j \in DOMAIN v10 /\ v10'[j] = v10[j]
    <3>1. Pays(v10[i], cmd, v10[j].binding[cmd]) /\ Pays(v10[j], cmd, v10[j].binding[cmd])
      BY <2>0, <2>2
    <3>2. v10[i].by \notin NoCache /\ v10[j].by \notin NoCache
      BY <2>2
    <3>3. RunsOnce
      BY DEF CheckInv
    <3>4. v10[i].by = v10[j].by
      BY <2>2, <3>1, <3>2, <3>3 DEF RunsOnce
    <3> QED BY <2>2, <3>4
  <2>3. CASE \E k \in ks, l \in ks : v10'[i] = Checks!Record(v, k) /\ v10'[j] = Checks!Record(v, l)
    BY <2>3, RecordIs
  <2>4. CASE i \in DOMAIN v10 /\ v10'[i] = v10[i] /\ \E k \in ks : v10'[j] = Checks!Record(v, k)
    <3>1. PICK k \in ks : v10'[j] = Checks!Record(v, k)
      BY <2>4
    <3>2. v10[i].by \notin NoCache /\ Pays(v10[i], cmd, b)
      BY <2>0, <2>4
    <3>3. v10[i].by = v10'[j].by
      BY <2>0, <2>1, <2>4, <3>1, <3>2
    <3> QED BY <2>4, <3>3
  <2>5. CASE j \in DOMAIN v10 /\ v10'[j] = v10[j] /\ \E k \in ks : v10'[i] = Checks!Record(v, k)
    BY <2>0, <2>1, <2>5
  <2> QED BY <1>2, <2>2, <2>3, <2>4, <2>5
<1> QED BY <1>2, <1>5, <1>6

\* The ledger as it was, and nobody begins to run.
LEMMA PaidAsBefore ==
  ASSUME CheckInv, UNCHANGED v10,
         \A u \in Verifies : v4'[u] = "running" =>
             v4[u] = "running" /\ v5'[u] = v5[u] /\ v6'[u] = v6[u] /\ v7'[u] = v7[u]
  PROVE  Recorded' /\ Unpaid' /\ RunsOnce'
<1>1. Recorded'
  BY DEF CheckInv, Recorded
<1>2. Unpaid'
  BY DEF CheckInv, Unpaid
<1>3. RunsOnce'
  BY DEF CheckInv, RunsOnce
<1> QED BY <1>1, <1>2, <1>3

LEMMA ChecksTypeCorrect ==
  ASSUME CheckTypes, LocksOwned
  PROVE  Checks!TypeOK
<1>1. ASSUME NEW b \in DOMAIN v3
      PROVE  b \in Checks!Bindings /\ v3[b] \in Verifies
  BY ChecksBinding DEF LocksOwned, Checks!Bindings
<1> QED BY <1>1 DEF CheckTypes, Checks!TypeOK

LEMMA ChecksInit ==
  ASSUME CheckAssumption, Checks!Init
  PROVE  CheckInv
<1>1. CheckTypes
  BY DEF CheckAssumption, Checks!Init, CheckTypes
<1>2. LocksOwned /\ BindingsHeld
  BY DEF Checks!Init, LocksOwned, BindingsHeld
<1>3. v10 \in Seq({}) /\ v10 = <<>>
  BY DEF Checks!Init
<1>4. Recorded /\ Unpaid /\ RunsOnce
  BY <1>3 DEF Recorded, Unpaid, RunsOnce
<1> QED BY <1>1, <1>2, <1>4 DEF CheckInv

LEMMA ChecksEdit ==
  ASSUME CheckAssumption, CheckInv, Checks!Edit
  PROVE  CheckInv'
<1>1. UNCHANGED <<v3, v4, v5, v6, v7, v8, v9, v10, v12, v13>>
  BY DEF Checks!Edit, Checks!local
<1>2. CheckTypes'
  BY <1>1 DEF CheckAssumption, CheckInv, CheckTypes, Checks!Edit
<1>3. LocksOwned' /\ BindingsHeld'
  BY <1>1 DEF CheckInv, LocksOwned, BindingsHeld
<1> QED BY <1>1, <1>2, <1>3, PaidAsBefore DEF CheckInv

LEMMA ChecksBegin ==
  ASSUME CheckAssumption, CheckInv, NEW v \in Verifies, Checks!Begin(v)
  PROVE  CheckInv'
<1>1. CheckTypes'
  BY DEF CheckInv, CheckTypes, Checks!Begin
<1>2. \A u \in Verifies : v4'[u] = "running" => v4[u] = "running" /\ v5'[u] = v5[u] /\ v6'[u] = v6[u] /\ v7'[u] = v7[u]
  BY DEF CheckInv, CheckTypes, Checks!Begin
<1>3. \A u \in Verifies : v4[u] \in {"waiting", "running"} => v4'[u] = v4[u] /\ v5'[u] = v5[u] /\ v6'[u] = v6[u]
  BY DEF CheckInv, CheckTypes, Checks!Begin
<1>4. UNCHANGED <<v3, v10>>
  BY DEF Checks!Begin
<1>5. LocksOwned'
  BY <1>3, <1>4 DEF CheckInv, LocksOwned
<1>6. BindingsHeld'
  BY <1>2, <1>4 DEF CheckInv, BindingsHeld
<1> QED BY <1>1, <1>2, <1>4, <1>5, <1>6, PaidAsBefore DEF CheckInv

LEMMA ChecksTakeLock ==
  ASSUME CheckAssumption, CheckInv, NEW v \in Verifies, Checks!TakeLock(v)
  PROVE  CheckInv'
<1>1. UNCHANGED <<v1, v2, v4, v5, v6, v7, v8, v9, v10, v11, v12, v13>> /\ v4[v] = "waiting"
  BY DEF Checks!TakeLock, Checks!local
<1>2. PICK cmd \in NeededOf(v5[v]) : /\ BindingOf(v5[v], v6[v], cmd) \notin DOMAIN v3
                                    /\ v3' = [b \in DOMAIN v3 \cup {BindingOf(v5[v], v6[v], cmd)} |->
                                                 IF b \in DOMAIN v3 THEN v3[b] ELSE v]
  BY ChecksBinding, ChecksNeeded DEF Checks!TakeLock, Checks!NextMissing, Checks!Missing
<1>3. cmd \in Checks!Commands
  BY <1>2, NeededIsCommands DEF CheckInv
<1>4. CheckTypes'
  BY <1>1 DEF CheckInv, CheckTypes
<1>5. LocksOwned'
  BY <1>1, <1>2, <1>3 DEF CheckInv, LocksOwned
<1>6. BindingsHeld'
  BY <1>1, <1>2 DEF CheckInv, BindingsHeld
<1> QED BY <1>1, <1>4, <1>5, <1>6, PaidAsBefore DEF CheckInv

LEMMA ChecksReread ==
  ASSUME CheckAssumption, CheckInv, NEW v \in Verifies, Checks!Reread(v)
  PROVE  CheckInv'
<1>1. /\ v4[v] = "waiting" /\ v4' = [v4 EXCEPT ![v] = "running"]
      /\ v7' = [v7 EXCEPT ![v] = Checks!Cached(v)]
      /\ UNCHANGED <<v1, v2, v3, v5, v6, v8, v9, v10, v11, v12, v13>>
  BY DEF Checks!Reread
<1>2. \A cmd \in NeededOf(v5[v]) : BindingOf(v5[v], v6[v], cmd) \in DOMAIN v3 /\ v3[BindingOf(v5[v], v6[v], cmd)] = v
  BY ChecksBinding, ChecksNeeded DEF Checks!Reread, Checks!Missing, Checks!Held
<1>3. Checks!Cached(v) \subseteq NeededOf(v5[v])
  BY ChecksNeeded DEF Checks!Cached
<1>4. CheckTypes'
  <2>1. Checks!Cached(v) \subseteq Checks!Commands
    BY <1>3, NeededIsCommands DEF CheckInv
  <2> QED BY <1>1, <2>1 DEF CheckInv, CheckTypes
<1>5. LocksOwned'
  BY <1>1 DEF CheckInv, CheckTypes, LocksOwned
<1>6. BindingsHeld'
  BY <1>1, <1>2 DEF CheckInv, CheckTypes, BindingsHeld
<1>7. Unpaid'
  <2>1. ASSUME v \notin NoCache, NEW cmd \in NeededOf(v5[v]) \ Checks!Cached(v), NEW i \in DOMAIN v10
        PROVE  ~Pays(v10[i], cmd, BindingOf(v5[v], v6[v], cmd))
    BY <2>1, ChecksBinding, ChecksNeeded DEF Checks!Cached, Checks!Reusable, Pays
  <2> QED BY <1>1, <2>1 DEF CheckInv, CheckTypes, Unpaid
<1>8. Recorded' /\ RunsOnce'
  BY <1>1 DEF CheckInv, Recorded, RunsOnce
<1> QED BY <1>4, <1>5, <1>6, <1>7, <1>8 DEF CheckInv

LEMMA ChecksRunOne ==
  ASSUME CheckAssumption, CheckInv, NEW v \in Verifies, NEW cmd, NEW ok \in BOOLEAN, Checks!RunOne(v, cmd, ok)
  PROVE  CheckInv'
<1>1. UNCHANGED <<v1, v2, v3, v4, v5, v6, v7, v9, v10, v11, v12, v13>>
  BY DEF Checks!RunOne
<1>2. cmd \in Checks!Commands
  BY NeededIsCommands, ChecksNeeded DEF CheckInv, Checks!RunOne, Checks!Launched
<1>3. CheckTypes'
  BY <1>1, <1>2 DEF CheckInv, CheckTypes, Checks!RunOne
<1>4. LocksOwned' /\ BindingsHeld'
  BY <1>1 DEF CheckInv, LocksOwned, BindingsHeld
<1> QED BY <1>1, <1>3, <1>4, PaidAsBefore DEF CheckInv

LEMMA ChecksRecordCompleted ==
  ASSUME CheckAssumption, CheckInv, NEW v \in Verifies, NEW cmd, Checks!RecordCompleted(v, cmd)
  PROVE  CheckInv'
<1> DEFINE ready == Checks!Ready(v, v13[v] \cup {cmd})
<1>1. /\ UNCHANGED <<v1, v2, v3, v4, v5, v6, v7, v8, v11, v12>> /\ v4[v] = "running"
      /\ v13' = [v13 EXCEPT ![v] = @ \cup {cmd}]
  BY DEF Checks!RecordCompleted
<1>2. \/ UNCHANGED <<v9, v10>>
      \/ v10' = v10 \o Checks!Records(v, ready) /\ v9' = [v9 EXCEPT ![v] = @ \cup ready]
  BY DEF Checks!RecordCompleted
<1>3. ready \subseteq v5[v]
  BY DEF Checks!Ready
<1> HIDE DEF ready
<1>4. cmd \in Checks!Commands
  BY NeededIsCommands, ChecksNeeded DEF CheckInv, Checks!RecordCompleted, Checks!Launched
<1>5. CheckTypes'
  <2>1. v9' \in [Verifies -> SUBSET Criteria]
    BY <1>2, <1>3 DEF CheckInv, CheckTypes
  <2> QED BY <1>1, <1>4, <2>1 DEF CheckInv, CheckTypes
<1>6. LocksOwned' /\ BindingsHeld'
  BY <1>1 DEF CheckInv, LocksOwned, BindingsHeld
<1>7. Recorded' /\ Unpaid' /\ RunsOnce'
  <2>1. CASE UNCHANGED v10
    BY <1>1, <2>1, PaidAsBefore
  <2>2. CASE v10' = v10 \o Checks!Records(v, ready)
    BY <1>1, <1>3, <2>2, PaidOnce
  <2> QED BY <1>2, <2>1, <2>2
<1> QED BY <1>5, <1>6, <1>7 DEF CheckInv

\* Who has gone leaves the others their locks.
LEMMA ChecksExit ==
  ASSUME CheckAssumption, CheckInv, NEW v \in Verifies, Checks!Exit(v), UNCHANGED <<v1, v2, v6, v11>>,
         v12' \in 0 .. CheckKills
  PROVE  /\ CheckTypes' /\ LocksOwned' /\ BindingsHeld'
         /\ \A u \in Verifies : v4'[u] = "running" =>
                v4[u] = "running" /\ v5'[u] = v5[u] /\ v6'[u] = v6[u] /\ v7'[u] = v7[u]
<1>1. CheckTypes'
  BY DEF CheckInv, CheckTypes, Checks!Exit
<1>2. \A u \in Verifies : u # v => /\ v4'[u] = v4[u] /\ v5'[u] = v5[u] /\ v6'[u] = v6[u] /\ v7'[u] = v7[u]
  BY DEF CheckInv, CheckTypes, Checks!Exit
<1>3. v4'[v] = "ended"
  BY DEF CheckInv, CheckTypes, Checks!Exit
<1>4. v3' = [b \in {c \in DOMAIN v3 : v3[c] # v} |-> v3[b]]
  BY DEF Checks!Exit, Checks!Released, Checks!Held
<1>5. LocksOwned'
  BY <1>2, <1>4 DEF CheckInv, LocksOwned
<1>6. BindingsHeld'
  BY <1>2, <1>3, <1>4 DEF CheckInv, BindingsHeld
<1> QED BY <1>1, <1>2, <1>3, <1>5, <1>6

LEMMA ChecksFinish ==
  ASSUME CheckAssumption, CheckInv, NEW v \in Verifies, Checks!Finish(v)
  PROVE  CheckInv'
<1>1. /\ v4[v] = "running" /\ Checks!Exit(v) /\ UNCHANGED <<v1, v2, v6, v11, v12>>
      /\ v10' = IF Checks!Changed(v, v5[v]) THEN v10 ELSE v10 \o Checks!Records(v, v5[v] \ v9[v])
  BY DEF Checks!Finish
<1>2. v12' \in 0 .. CheckKills
  BY <1>1 DEF CheckInv, CheckTypes
<1>3. /\ CheckTypes' /\ LocksOwned' /\ BindingsHeld'
      /\ \A u \in Verifies : v4'[u] = "running" =>
             v4[u] = "running" /\ v5'[u] = v5[u] /\ v6'[u] = v6[u] /\ v7'[u] = v7[u]
  BY <1>1, <1>2, ChecksExit
<1>4. Recorded' /\ Unpaid' /\ RunsOnce'
  <2>1. CASE v10' = v10
    BY <1>3, <2>1, PaidAsBefore
  <2>2. CASE v10' = v10 \o Checks!Records(v, v5[v] \ v9[v])
    BY <1>1, <1>3, <2>2, PaidOnce
  <2> QED BY <1>1, <2>1, <2>2
<1> QED BY <1>3, <1>4 DEF CheckInv

LEMMA ChecksKill ==
  ASSUME CheckAssumption, CheckInv, NEW v \in Verifies, Checks!Kill(v)
  PROVE  CheckInv'
<1>1. Checks!Exit(v) /\ UNCHANGED <<v1, v2, v6, v10, v11>>
  BY DEF Checks!Kill
<1>2. v12' \in 0 .. CheckKills
  BY DEF CheckAssumption, CheckInv, CheckTypes, Checks!Kill
<1>3. /\ CheckTypes' /\ LocksOwned' /\ BindingsHeld'
      /\ \A u \in Verifies : v4'[u] = "running" =>
             v4[u] = "running" /\ v5'[u] = v5[u] /\ v6'[u] = v6[u] /\ v7'[u] = v7[u]
  BY <1>1, <1>2, ChecksExit
<1> QED BY <1>1, <1>3, PaidAsBefore DEF CheckInv

LEMMA ChecksNext ==
  ASSUME CheckAssumption, CheckInv, Checks!Next
  PROVE  CheckInv'
<1>1. CASE Checks!Edit
  BY <1>1, ChecksEdit
<1>2. ASSUME NEW v \in Verifies, Checks!Begin(v) \/ Checks!Step(v) \/ Checks!Kill(v)
      PROVE  CheckInv'
  <2>1. CASE Checks!Begin(v) \/ Checks!Kill(v)
    BY <2>1, ChecksBegin, ChecksKill
  <2>2. CASE Checks!TakeLock(v) \/ Checks!Reread(v) \/ Checks!Finish(v)
    BY <2>2, ChecksTakeLock, ChecksReread, ChecksFinish
  <2>3. ASSUME NEW cmd, Checks!RecordCompleted(v, cmd)
        PROVE  CheckInv'
    BY <2>3, ChecksRecordCompleted
  <2>4. ASSUME NEW cmd, NEW ok \in BOOLEAN, Checks!RunOne(v, cmd, ok)
        PROVE  CheckInv'
    BY <2>4, ChecksRunOne
  <2> QED BY <1>2, <2>1, <2>2, <2>3, <2>4 DEF Checks!Step
<1> QED BY <1>1, <1>2 DEF Checks!Next

LEMMA ChecksStutter ==
  ASSUME CheckInv, UNCHANGED Shared
  PROVE  CheckInv'
<1>1. UNCHANGED <<v1, v2, v3, v4, v5, v6, v7, v8, v9, v10, v11, v12, v13>>
  BY DEF Shared
<1>2. CheckTypes' /\ LocksOwned' /\ BindingsHeld'
  BY <1>1 DEF CheckInv, CheckTypes, LocksOwned, BindingsHeld
<1> QED BY <1>1, <1>2, PaidAsBefore DEF CheckInv
-----------------------------------------------------------------------------
(* Regression: the shards share the tests out, and a request that completed  *)
(* ran whole, on its own tree unless that was changed and changed back.      *)

BatteryAssumption ==
  /\ RegressionTests \in Nat /\ Shards \in Nat \ {0} /\ History \in Nat \ {0}
  /\ MaxRequests \in Nat /\ Versions \in Nat

\* Every set of naturals that is not empty has a least element.
LEMMA LeastOf ==
  ASSUME NEW T \in SUBSET Nat, T # {}
  PROVE  \E x \in T : \A y \in T : x <= y
<1>1. PICK x \in T : \A y \in T : ~ (<<y, x>> \in OpToRel(<, Nat))
  BY NatLessThanWellFounded, WFMin
<1>2. \A y \in T : ~ (<<y, x>> \in {ss \in Nat \X Nat : ss[1] < ss[2]})
  BY <1>1, Zenon DEF OpToRel
<1>3. ASSUME NEW y \in T
      PROVE  x <= y
  <2>1. x \in Nat /\ y \in Nat /\ <<y, x>> \in Nat \X Nat /\ <<y, x>>[1] = y /\ <<y, x>>[2] = x
    OBVIOUS
  <2>2. ~ (y < x)
    BY <1>2, <2>1
  <2> QED BY <2>1, <2>2
<1> QED BY <1>3

LEMMA ProductGrows ==
  ASSUME NEW a \in Nat, NEW b \in Nat, NEW q \in Nat, a <= b
  PROVE  a * q \in Nat /\ b * q \in Nat /\ a * q <= b * q
OBVIOUS

\* Where the slices begin: at 0, in order, and one past the last at the end.
LEMMA SlicesInOrder ==
  ASSUME BatteryAssumption
  PROVE  /\ \A k \in 1 .. Shards + 1 : Battery!First(k) \in Nat
         /\ Battery!First(1) = 0 /\ Battery!First(Shards + 1) = RegressionTests
         /\ \A j, k \in 1 .. Shards + 1 : j <= k => Battery!First(j) <= Battery!First(k)
<1> DEFINE q == RegressionTests \div Shards
           r == RegressionTests % Shards
           m(k) == IF k < r THEN k ELSE r
<1>1. q \in Nat /\ r \in 0 .. Shards - 1 /\ RegressionTests = Shards * q + r
  BY DEF BatteryAssumption
<1>2. \A k : Battery!First(k) = (k - 1) * q + m(k - 1)
  BY DEF Battery!First
<1>3. \A j, k \in Nat : j <= k => m(j) \in Nat /\ m(k) \in Nat /\ m(j) <= m(k)
  BY <1>1
<1>4. 0 * q = 0 /\ m(0) = 0 /\ m(Shards) = r
  BY <1>1 DEF BatteryAssumption
<1> HIDE DEF q, r, m
<1>5. ASSUME NEW j \in 1 .. Shards + 1, NEW k \in 1 .. Shards + 1, j <= k
      PROVE  Battery!First(j) \in Nat /\ Battery!First(k) \in Nat /\ Battery!First(j) <= Battery!First(k)
  <2>1. j - 1 \in Nat /\ k - 1 \in Nat /\ j - 1 <= k - 1
    BY <1>5 DEF BatteryAssumption
  <2>2. (j - 1) * q \in Nat /\ (k - 1) * q \in Nat /\ (j - 1) * q <= (k - 1) * q
    BY <1>1, <2>1, ProductGrows
  <2>3. m(j - 1) \in Nat /\ m(k - 1) \in Nat /\ m(j - 1) <= m(k - 1)
    BY <1>3, <2>1
  <2> QED BY <1>2, <2>2, <2>3
<1>6. Battery!First(1) = 0
  BY <1>2, <1>4
<1>7. Battery!First(Shards + 1) = RegressionTests
  <2>1. (Shards + 1) - 1 = Shards
    BY DEF BatteryAssumption
  <2>2. Battery!First(Shards + 1) = ((Shards + 1) - 1) * q + m((Shards + 1) - 1)
    BY <1>2
  <2>3. Battery!First(Shards + 1) = Shards * q + r
    BY <1>4, <2>1, <2>2
  <2> QED BY <1>1, <2>3
<1> QED BY <1>5, <1>6, <1>7

\* Every test is dealt to exactly one shard (the slices of the inventory).
LEMMA SlicesExact ==
  ASSUME BatteryAssumption
  PROVE  Battery!Exact
<1> SUFFICES ASSUME NEW t \in 0 .. RegressionTests - 1
             PROVE  \E k \in 1 .. Shards : \A j \in 1 .. Shards : t \in Battery!Dealt(j) <=> j = k
  BY DEF Battery!Exact
<1> DEFINE Beyond == {k \in 1 .. Shards : t < Battery!First(k + 1)}
<1>1. Shards \in Beyond /\ Beyond \in SUBSET Nat
  BY SlicesInOrder DEF BatteryAssumption
<1>2. PICK k \in Beyond : \A j \in Beyond : k <= j
  BY <1>1, LeastOf
<1>3. k \in 1 .. Shards /\ t < Battery!First(k + 1)
  OBVIOUS
<1>4. Battery!First(k) <= t
  <2>1. CASE k = 1
    BY <2>1, SlicesInOrder
  <2>2. CASE k # 1
    <3>1. k - 1 \in 1 .. Shards /\ k - 1 \notin Beyond
      BY <1>2, <1>3, <2>2 DEF BatteryAssumption
    <3>2. ~ (t < Battery!First(k - 1 + 1)) /\ k - 1 + 1 = k
      BY <1>3, <3>1 DEF BatteryAssumption
    <3>3. Battery!First(k) \in Nat
      BY <1>3, SlicesInOrder DEF BatteryAssumption
    <3> QED BY <3>2, <3>3 DEF BatteryAssumption
  <2> QED BY <2>1, <2>2
<1> HIDE DEF Beyond
<1>5. t \in Battery!Dealt(k)
  BY <1>3, <1>4 DEF Battery!Dealt
<1>6. ASSUME NEW j \in 1 .. Shards, t \in Battery!Dealt(j)
      PROVE  j = k
  <2>1. Battery!First(j) <= t /\ t < Battery!First(j + 1)
    BY <1>6 DEF Battery!Dealt
  <2>2. /\ j \in 1 .. Shards + 1 /\ j + 1 \in 1 .. Shards + 1 /\ k \in 1 .. Shards + 1 /\ k + 1 \in 1 .. Shards + 1
    BY <1>3 DEF BatteryAssumption
  <2>3. /\ Battery!First(j) \in Nat /\ Battery!First(k) \in Nat
        /\ Battery!First(j + 1) \in Nat /\ Battery!First(k + 1) \in Nat
    BY <2>2, SlicesInOrder
  <2>4. ~ (j < k)
    <3>1. j + 1 <= k => Battery!First(j + 1) <= Battery!First(k)
      BY <2>2, SlicesInOrder
    <3> QED BY <1>4, <2>1, <2>2, <2>3, <3>1 DEF BatteryAssumption
  <2>5. ~ (k < j)
    <3>1. k + 1 <= j => Battery!First(k + 1) <= Battery!First(j)
      BY <2>2, SlicesInOrder
    <3> QED BY <1>3, <2>1, <2>2, <2>3, <3>1 DEF BatteryAssumption
  <2> QED BY <2>2, <2>4, <2>5 DEF BatteryAssumption
<1> QED BY <1>3, <1>5, <1>6

-----------------------------------------------------------------------------
\* What every request and every runner is at all times.  A runner that was edited
\* under once is on another tree; not at all, still on its own.
WholeRun(n) ==
  IF n.serial THEN n.shard[1] \in {"whole", "short"} ELSE \A k \in 1 .. Shards : n.shard[k] = "whole"
RunnerFits(n) ==
  /\ n.pc = "none" => n.trees = {} /\ n.edits = 0
  /\ n.exit = 0 => WholeRun(n) /\ n.pc \notin {"none", "starting", "collecting", "running"}
OnItsTree(n, on, now) ==
  n.pc \in Battery!Running =>
      /\ n.edits = 0 => now = on /\ n.trees \subseteq {on}
      /\ n.edits = 1 => now # on
LaunchFits(q) ==
  q.state = "launched" =>
      /\ q.nonce \in Runners /\ v4[q.nonce].id = q.id /\ v4[q.nonce].pc # "none"
      /\ OnItsTree(v4[q.nonce], q.on, v1)
Completes(n, q) ==
  n.pc = "over" /\ n.id = q.id /\ WholeRun(n) /\ (n.edits < 2 => n.trees \subseteq {q.on})
CompletionFits(q) == q.state = "completed" => \E r \in Runners : Completes(v4[r], q)
RequestsFit ==
  /\ v2 \in Seq(Battery!Request) /\ Len(v2) <= History
  /\ \A i \in 1 .. Len(v2) - 1 : v2[i].state \notin Battery!LiveStates
  /\ \A i \in 1 .. Len(v2) : LaunchFits(v2[i]) /\ CompletionFits(v2[i])
RunnersFit == v4 \in [Runners -> Battery!Runner] /\ \A r \in Runners : RunnerFits(v4[r])
ProgressFits == v5 \in [owner : Runners \cup {AdHoc, Nothing}, fresh : BOOLEAN, over : BOOLEAN]
BatteryInv ==
  /\ v1 \in Battery!Trees /\ v3 \in 0 .. MaxRequests
  /\ RequestsFit /\ RunnersFit /\ ProgressFits

\* What the invariant is for.
LEMMA BatteryTypeCorrect ==
  ASSUME BatteryAssumption, BatteryInv
  PROVE  Battery!TypeOK
BY SlicesExact DEF BatteryInv, RequestsFit, RunnersFit, ProgressFits, Battery!TypeOK

LEMMA BatteryCompletedIsWhole ==
  ASSUME BatteryInv
  PROVE  Battery!CompletedIsWhole
BY DEF BatteryInv, RequestsFit, CompletionFits, Completes, WholeRun, Battery!CompletedIsWhole

\* A runner that never ran, and one that is gone.
LEMMA IdleFits ==
  ASSUME BatteryAssumption
  PROVE  Battery!Idle \in Battery!Runner /\ RunnerFits(Battery!Idle)
BY DEF BatteryAssumption, Battery!Idle, Battery!Runner, Battery!Running, Battery!Ran, RunnerFits

GoneAs(id, how) == [Battery!Idle EXCEPT !.pc = how, !.id = id]

LEMMA GoneFits ==
  ASSUME BatteryAssumption, NEW id \in 0 .. MaxRequests,
         NEW how \in {"superseded", "killed", "over"}
  PROVE  /\ GoneAs(id, how) \in Battery!Runner /\ RunnerFits(GoneAs(id, how))
         /\ GoneAs(id, how).pc = how /\ GoneAs(id, how).id = id
<1> DEFINE n == GoneAs(id, how)
           m == [Battery!Idle EXCEPT !.pc = how]
<1>1. Battery!Idle.exit = 1
  BY DEF Battery!Idle
<1>2. m \in Battery!Runner /\ m.pc = how /\ m.exit = 1
  BY <1>1, IdleFits DEF Battery!Runner
<1>3. n = [m EXCEPT !.id = id]
  BY DEF GoneAs
<1> HIDE DEF m, n
<1>4. n \in Battery!Runner /\ n.pc = how /\ n.exit = 1 /\ n.id = id
  BY <1>2, <1>3 DEF Battery!Runner
<1>5. RunnerFits(n)
  BY <1>4 DEF RunnerFits
<1> QED BY <1>4, <1>5 DEF n

LEMMA BatteryInit ==
  ASSUME BatteryAssumption, Battery!Init
  PROVE  BatteryInv
<1>1. Battery!Idle \in Battery!Runner /\ RunnerFits(Battery!Idle)
  BY IdleFits
<1>2. RunnersFit
  BY <1>1 DEF Battery!Init, RunnersFit
<1>3. v2 = <<>> /\ v2 \in Seq(Battery!Request) /\ Len(v2) = 0
  BY DEF Battery!Init
<1>4. RequestsFit
  BY <1>3 DEF RequestsFit, BatteryAssumption
<1> QED BY <1>2, <1>4 DEF BatteryAssumption, Battery!Init, BatteryInv, ProgressFits, Battery!Trees

\* A runner goes on, and adds at most the tree of now, or it is gone.
RunnerGoesOn(r, n) ==
  /\ v4' = [v4 EXCEPT ![r] = n]
  /\ n \in Battery!Runner /\ RunnerFits(n) /\ n.pc # "none"
  /\ v4[r].pc \in Battery!Running /\ n.id = v4[r].id
  /\ n.pc \in Battery!Running => n.edits = v4[r].edits /\ n.trees \subseteq v4[r].trees \cup {v1}

LEMMA RunnerGoesOnFits ==
  ASSUME BatteryAssumption, BatteryInv, NEW r \in Runners, NEW n, RunnerGoesOn(r, n), UNCHANGED <<v1, v2, v3>>, ProgressFits'
  PROVE  BatteryInv'
<1>1. RunnersFit'
  BY DEF BatteryInv, RunnersFit, RunnerGoesOn
<1>2. \A u \in Runners : v4'[u] = IF u = r THEN n ELSE v4[u]
  BY DEF BatteryInv, RunnersFit, RunnerGoesOn
<1>3. ASSUME NEW i \in 1 .. Len(v2)
      PROVE  LaunchFits(v2[i])' /\ CompletionFits(v2[i])'
  <2>1. v2[i] \in Battery!Request /\ LaunchFits(v2[i]) /\ CompletionFits(v2[i]) /\ v2'[i] = v2[i]
    BY DEF BatteryInv, RequestsFit
  <2>3. LaunchFits(v2[i])'
    BY <1>2, <2>1 DEF LaunchFits, OnItsTree, RunnerGoesOn
  <2>4. CompletionFits(v2[i])'
    <3> SUFFICES ASSUME v2[i].state = "completed"
                 PROVE  \E u \in Runners : Completes(v4'[u], v2[i])
      BY <2>1 DEF CompletionFits
    <3>1. PICK u \in Runners : Completes(v4[u], v2[i])
      BY <2>1 DEF CompletionFits
    <3>2. u # r
      BY <3>1 DEF RunnerGoesOn, Battery!Running, Completes
    <3> QED BY <1>2, <3>1, <3>2
  <2> QED BY <2>3, <2>4
<1>4. RequestsFit'
  BY <1>3 DEF BatteryInv, RequestsFit
<1> QED BY <1>1, <1>4 DEF BatteryInv

\* The last request, which is live, takes another state.
LEMMA BecomesIs ==
  ASSUME BatteryInv, Battery!LiveOne, NEW to \in Battery!States, Battery!Becomes(to)
  PROVE  /\ v2' \in Seq(Battery!Request) /\ Len(v2') = Len(v2) /\ Len(v2) \in Nat \ {0}
         /\ v2[Len(v2)] \in Battery!Request
         /\ \A i \in 1 .. Len(v2) - 1 : v2'[i] = v2[i]
         /\ v2'[Len(v2)].state = to
         /\ v2'[Len(v2)].id = v2[Len(v2)].id /\ v2'[Len(v2)].on = v2[Len(v2)].on
         /\ v2'[Len(v2)].nonce = v2[Len(v2)].nonce
<1> DEFINE n == Len(v2)
<1>1. n \in Nat \ {0} /\ v2 \in Seq(Battery!Request) /\ v2[n] \in Battery!Request /\ n \in DOMAIN v2
  BY DEF BatteryInv, RequestsFit, Battery!LiveOne
<1>2. v2' = [v2 EXCEPT ![n] = [v2[n] EXCEPT !.state = to]]
  BY DEF Battery!Becomes
<1> DEFINE q == [v2[n] EXCEPT !.state = to]
<1>3. q \in Battery!Request /\ q.state = to /\ q.id = v2[n].id /\ q.on = v2[n].on /\ q.nonce = v2[n].nonce
  BY <1>1 DEF Battery!Request
<1> HIDE DEF q
<1>4. v2' = [v2 EXCEPT ![n] = q]
  BY <1>2 DEF q
<1>5. v2'[n] = q /\ v2' \in Seq(Battery!Request) /\ Len(v2') = n /\ \A i \in 1 .. n - 1 : v2'[i] = v2[i]
  BY <1>1, <1>3, <1>4
<1> QED BY <1>1, <1>3, <1>5

\* A request that is over, or accepted, binds no runner.
LEMMA BecomesFits ==
  ASSUME BatteryAssumption, BatteryInv, Battery!LiveOne, NEW to \in Battery!States \ {"launched", "completed"},
         Battery!Becomes(to), UNCHANGED <<v1, v3, v4, v5>>
  PROVE  BatteryInv'
<1> DEFINE n == Len(v2)
<1>1. \A i \in 1 .. n - 1 : LaunchFits(v2[i])' /\ CompletionFits(v2[i])'
  <2>1. \A i \in 1 .. n - 1 : v2'[i] = v2[i] /\ LaunchFits(v2[i]) /\ CompletionFits(v2[i])
    BY BecomesIs DEF BatteryInv, RequestsFit
  <2> QED BY <2>1 DEF LaunchFits, CompletionFits
<1>2. LaunchFits(v2[n])' /\ CompletionFits(v2[n])'
  BY BecomesIs DEF LaunchFits, CompletionFits
<1> QED BY <1>1, <1>2, BecomesIs DEF BatteryInv, RequestsFit, RunnersFit, ProgressFits

LEMMA BatteryRequest ==
  ASSUME BatteryAssumption, BatteryInv, Battery!RegressionRequest
  PROVE  BatteryInv'
<1> DEFINE q == [id |-> v3 + 1, state |-> "awaiting_approval", on |-> v1, nonce |-> Nothing]
           kept == IF Len(v2) >= History THEN Tail(v2) ELSE v2
<1>1. ~Battery!LiveOne /\ v3 < MaxRequests /\ v3' = v3 + 1 /\ v2' = Append(kept, q) /\ UNCHANGED <<v1, v4, v5>>
  BY DEF Battery!RegressionRequest
<1>2. q \in Battery!Request
  BY <1>1 DEF BatteryInv, BatteryAssumption, Battery!Request, Battery!States, Battery!LiveStates
<1>3. q.state = "awaiting_approval"
  OBVIOUS
<1>4. v2 \in Seq(Battery!Request) /\ Len(v2) <= History
  BY DEF BatteryInv, RequestsFit
<1>5. \A i \in 1 .. Len(v2) : v2[i].state \notin Battery!LiveStates
  <2>1. \A i \in 1 .. Len(v2) - 1 : v2[i].state \notin Battery!LiveStates
    BY DEF BatteryInv, RequestsFit
  <2>2. Len(v2) \in Nat /\ (Len(v2) # 0 => v2 # <<>>)
    BY <1>4
  <2>3. Len(v2) # 0 => v2[Len(v2)].state \notin Battery!LiveStates
    BY <1>1, <2>2 DEF Battery!LiveOne, Battery!Last
  <2> QED BY <2>1, <2>2, <2>3
<1>6. /\ kept \in Seq(Battery!Request) /\ Len(kept) < History
      /\ \A i \in 1 .. Len(kept) : \E j \in 1 .. Len(v2) : kept[i] = v2[j]
  <2>1. CASE Len(v2) >= History
    <3>1. Len(v2) \in Nat \ {0} /\ v2 # <<>>
      BY <1>4, <2>1 DEF BatteryAssumption
    <3>2. kept = Tail(v2) /\ Tail(v2) \in Seq(Battery!Request) /\ Len(Tail(v2)) = Len(v2) - 1
      BY <1>4, <2>1, <3>1
    <3>3. \A i \in 1 .. Len(v2) - 1 : Tail(v2)[i] = v2[i + 1] /\ i + 1 \in 1 .. Len(v2)
      BY <1>4, <3>1
    <3> HIDE DEF kept
    <3> QED BY <1>4, <3>1, <3>2, <3>3 DEF BatteryAssumption
  <2>2. CASE ~(Len(v2) >= History)
    BY <1>4, <2>2 DEF BatteryAssumption
  <2> QED BY <2>1, <2>2
<1> HIDE DEF q, kept
<1>7. /\ v2' \in Seq(Battery!Request) /\ Len(v2') = Len(kept) + 1 /\ Len(v2') <= History
      /\ v2'[Len(v2')] = q /\ \A i \in 1 .. Len(v2') - 1 : v2'[i] = kept[i] /\ i \in 1 .. Len(kept)
  BY <1>1, <1>2, <1>6 DEF BatteryAssumption
<1>8. \A i \in 1 .. Len(v2') - 1 : v2'[i].state \notin Battery!LiveStates
  BY <1>5, <1>6, <1>7
<1>9. ASSUME NEW i \in 1 .. Len(v2')
      PROVE  LaunchFits(v2[i])' /\ CompletionFits(v2[i])'
  <2>1. CASE i = Len(v2')
    BY <1>3, <1>7, <2>1 DEF LaunchFits, CompletionFits
  <2>2. CASE i # Len(v2')
    <3>1. i \in 1 .. Len(v2') - 1
      BY <1>7, <2>2
    <3>2. PICK j \in 1 .. Len(v2) : v2'[i] = v2[j]
      BY <1>6, <1>7, <3>1
    <3>3. LaunchFits(v2[j]) /\ CompletionFits(v2[j])
      BY DEF BatteryInv, RequestsFit
    <3> QED BY <1>1, <3>2, <3>3 DEF LaunchFits, CompletionFits
  <2> QED BY <2>1, <2>2
<1>10. RequestsFit'
  BY <1>7, <1>8, <1>9 DEF RequestsFit
<1> QED BY <1>1, <1>10 DEF BatteryInv, RunnersFit, ProgressFits, BatteryAssumption

\* An accepted request is launched by a runner that never ran.
LaunchedAs(r, p, h) ==
  /\ Battery!LiveOne /\ v4[r].pc = "none"
  /\ p \in Battery!Request /\ p.state = "launched" /\ p.nonce = r /\ p.on = v1
  /\ h \in Battery!Runner /\ h.pc = "starting" /\ h.trees = {} /\ h.edits = 0 /\ h.exit # 0 /\ h.id = p.id
  /\ v2' = [v2 EXCEPT ![Len(v2)] = p] /\ v4' = [v4 EXCEPT ![r] = h] /\ UNCHANGED <<v1, v3, v5>>

LEMMA LaunchedFits ==
  ASSUME BatteryAssumption, BatteryInv, NEW r \in Runners, NEW p, NEW h, LaunchedAs(r, p, h)
  PROVE  BatteryInv'
<1>0. /\ Battery!LiveOne /\ v4[r].pc = "none"
      /\ p \in Battery!Request /\ p.state = "launched" /\ p.nonce = r /\ p.on = v1
      /\ h \in Battery!Runner /\ h.pc = "starting" /\ h.trees = {} /\ h.edits = 0 /\ h.exit # 0 /\ h.id = p.id
      /\ v2' = [v2 EXCEPT ![Len(v2)] = p] /\ v4' = [v4 EXCEPT ![r] = h] /\ UNCHANGED <<v1, v3, v5>>
  BY DEF LaunchedAs
<1> DEFINE n == Len(v2)
<1>1. n \in Nat \ {0} /\ v2 \in Seq(Battery!Request) /\ n <= History
  BY <1>0 DEF BatteryInv, RequestsFit, Battery!LiveOne
<1>2. v2' \in Seq(Battery!Request) /\ Len(v2') = n /\ v2'[n] = p /\ \A i \in 1 .. n - 1 : v2'[i] = v2[i]
  BY <1>0, <1>1
<1>3. RunnersFit' /\ \A u \in Runners : v4'[u] = IF u = r THEN h ELSE v4[u]
  BY <1>0 DEF BatteryInv, RunnersFit, RunnerFits
<1>4. ASSUME NEW i \in 1 .. n - 1
      PROVE  v2[i].state \notin Battery!LiveStates /\ LaunchFits(v2[i])' /\ CompletionFits(v2[i])'
  <2>1. v2'[i] = v2[i] /\ v2[i].state \notin Battery!LiveStates /\ CompletionFits(v2[i])
    <3>1. v2'[i] = v2[i]
      BY <1>2, Zenon
    <3>2. i \in 1 .. n
      BY <1>1
    <3> QED BY <3>1, <3>2 DEF BatteryInv, RequestsFit
  <2>2. LaunchFits(v2[i])'
    BY <2>1 DEF LaunchFits, Battery!LiveStates
  <2>3. CompletionFits(v2[i])'
    <3> SUFFICES ASSUME v2[i].state = "completed"
                 PROVE  \E u \in Runners : Completes(v4'[u], v2[i])
      BY <2>1 DEF CompletionFits
    <3>1. PICK u \in Runners : Completes(v4[u], v2[i])
      BY <2>1 DEF CompletionFits
    <3>2. u # r
      BY <1>0, <3>1 DEF Completes
    <3> QED BY <1>3, <3>1, <3>2
  <2> QED BY <2>1, <2>2, <2>3
<1>5. LaunchFits(v2[n])' /\ CompletionFits(v2[n])'
  <2>1. OnItsTree(h, v1, v1)
    BY <1>0 DEF OnItsTree
  <2>2. v4'[r] = h /\ v1' = v1
    BY <1>0, <1>3
  <2>3. v2[n]' = p
    BY <1>2
  <2>4. LaunchFits(v2[n])'
    BY <1>0, <2>1, <2>2, <2>3 DEF LaunchFits
  <2>5. CompletionFits(v2[n])'
    BY <1>0, <2>3 DEF CompletionFits
  <2> QED BY <2>4, <2>5
<1>6. RequestsFit'
  <2>1. \A i \in 1 .. n : LaunchFits(v2[i])' /\ CompletionFits(v2[i])'
    <3>1. \A i \in 1 .. n : i \in 1 .. n - 1 \/ i = n
      BY <1>1
    <3>2. \A i \in 1 .. n - 1 : LaunchFits(v2[i])' /\ CompletionFits(v2[i])'
      BY <1>4
    <3>3. v2'[Len(v2')] = v2'[n]
      BY <1>2
    <3> QED BY <1>5, <3>1, <3>2, <3>3
  <2>2. \A i \in 1 .. n - 1 : v2'[i].state \notin Battery!LiveStates
    BY <1>2, <1>4
  <2> QED BY <1>1, <1>2, <2>1, <2>2 DEF RequestsFit
<1> QED BY <1>0, <1>3, <1>6 DEF BatteryInv, ProgressFits

LEMMA BatteryLaunch ==
  ASSUME BatteryAssumption, BatteryInv, NEW r \in Runners, Battery!LiveOne, v4[r].pc = "none",
         v2' = [v2 EXCEPT ![Len(v2)].state = "launched", ![Len(v2)].nonce = r],
         v4' = [v4 EXCEPT ![r].pc = "starting", ![r].id = Battery!Last.id],
         Battery!Last.on = v1, UNCHANGED <<v1, v3, v5>>
  PROVE  BatteryInv'
<1> DEFINE n == Len(v2)
           q == [v2[n] EXCEPT !.state = "launched"]
           p == [q EXCEPT !.nonce = r]
           g == [v4[r] EXCEPT !.pc = "starting"]
           h == [g EXCEPT !.id = v2[n].id]
<1>1. n \in Nat \ {0} /\ v2 \in Seq(Battery!Request) /\ v2[n] \in Battery!Request /\ n \in DOMAIN v2 /\ n <= History
  BY DEF BatteryInv, RequestsFit, Battery!LiveOne
<1>2. q \in Battery!Request /\ q.state = "launched" /\ q.id = v2[n].id /\ q.on = v2[n].on
  BY <1>1 DEF Battery!Request, Battery!States, Battery!LiveStates
<1>3. p \in Battery!Request /\ p.state = "launched" /\ p.nonce = r /\ p.id = v2[n].id /\ p.on = v2[n].on
  <2> HIDE DEF q
  <2> QED BY <1>2 DEF Battery!Request
<1>4. v2' = [v2 EXCEPT ![n] = p]
  <2>1. [[v2 EXCEPT ![n].state = "launched"] EXCEPT ![n].nonce = r] = [[v2 EXCEPT ![n] = q] EXCEPT ![n].nonce = r]
    OBVIOUS
  <2> HIDE DEF q
  <2>2. [[v2 EXCEPT ![n] = q] EXCEPT ![n].nonce = r] = [v2 EXCEPT ![n] = p]
    BY <1>1
  <2> QED BY <2>1, <2>2 DEF q
<1>5. v4[r] \in Battery!Runner /\ v4[r].trees = {} /\ v4[r].edits = 0 /\ v4[r].exit # 0
  BY DEF BatteryInv, RunnersFit, RunnerFits
<1>6. g \in Battery!Runner /\ g.pc = "starting" /\ g.trees = {} /\ g.edits = 0 /\ g.exit # 0
  BY <1>5 DEF Battery!Runner, Battery!Running
<1>7. h \in Battery!Runner /\ h.pc = "starting" /\ h.trees = {} /\ h.edits = 0 /\ h.exit # 0 /\ h.id = v2[n].id
  <2>1. v2[n].id \in 0 .. MaxRequests
    BY <1>1 DEF Battery!Request
  <2> HIDE DEF g
  <2> QED BY <1>6, <2>1 DEF Battery!Runner
<1>8. v4' = [v4 EXCEPT ![r] = h]
  BY <1>5 DEF Battery!Last, BatteryInv, RunnersFit
<1>9. v2[n].on = v1
  BY DEF Battery!Last
<1> HIDE DEF p, q, g, h
<1>10. p.on = v1 /\ h.id = p.id
  BY <1>3, <1>7, <1>9
<1>11. LaunchedAs(r, p, h)
  BY <1>3, <1>4, <1>7, <1>8, <1>10 DEF LaunchedAs
<1> QED BY <1>11, LaunchedFits

LEMMA BatteryDecisions ==
  ASSUME BatteryAssumption, BatteryInv, NEW accept, NEW late \in BOOLEAN,
         \/ Battery!RegressionDecide(accept, late)
         \/ Battery!RegressionCancel \/ Battery!RegressionFinalize
  PROVE  BatteryInv'
<1>1. PICK to \in Battery!States \ {"launched", "completed"} : Battery!Becomes(to)
  BY DEF Battery!RegressionDecide, Battery!RegressionCancel, Battery!RegressionFinalize, Battery!States, Battery!LiveStates
<1>2. Battery!LiveOne /\ UNCHANGED <<v1, v3, v4, v5>>
  BY DEF Battery!RegressionDecide, Battery!RegressionCancel, Battery!RegressionFinalize
<1> QED BY <1>1, <1>2, BecomesFits

LEMMA BatteryRun ==
  ASSUME BatteryAssumption, BatteryInv, NEW r \in Runners, NEW late \in BOOLEAN, Battery!RegressionRun(r, late)
  PROVE  BatteryInv'
<1>1. Battery!LiveOne /\ v4[r].pc = "none" /\ UNCHANGED <<v1, v3, v5>>
  BY DEF Battery!RegressionRun
<1>2. CASE late \/ Battery!Last.on # v1
  <2>1. UNCHANGED v4 /\ (Battery!Becomes("expired") \/ Battery!Becomes("invalidated"))
    BY <1>2 DEF Battery!RegressionRun
  <2> QED BY <1>1, <2>1, BecomesFits DEF Battery!States
<1>3. CASE ~(late \/ Battery!Last.on # v1)
  <2>1. /\ v2' = [v2 EXCEPT ![Len(v2)].state = "launched", ![Len(v2)].nonce = r]
        /\ v4' = [v4 EXCEPT ![r].pc = "starting", ![r].id = Battery!Last.id]
    BY <1>3 DEF Battery!RegressionRun
  <2> QED BY <1>1, <1>3, <2>1, BatteryLaunch
<1> QED BY <1>2, <1>3

-----------------------------------------------------------------------------
\* What a runner does between its launch and its record.
LEMMA RunnerTakes ==
  ASSUME NEW n \in Battery!Runner, NEW pc \in Battery!Running \cup {"superseded", "killed", "over"}
  PROVE  /\ [n EXCEPT !.pc = pc] \in Battery!Runner
         /\ [n EXCEPT !.pc = pc].pc = pc /\ [n EXCEPT !.pc = pc].id = n.id
         /\ [n EXCEPT !.pc = pc].shard = n.shard /\ [n EXCEPT !.pc = pc].trees = n.trees
         /\ [n EXCEPT !.pc = pc].exit = n.exit /\ [n EXCEPT !.pc = pc].edits = n.edits
         /\ [n EXCEPT !.pc = pc].serial = n.serial
BY DEF Battery!Runner

\* A runner that runs is superseded or killed.
LEMMA RunnerGone ==
  ASSUME BatteryAssumption, BatteryInv, NEW r \in Runners, v4[r].pc \in Battery!Running,
         NEW how \in {"superseded", "killed"}, v4' = [v4 EXCEPT ![r] = Battery!Gone(r, how)]
  PROVE  RunnerGoesOn(r, Battery!Gone(r, how))
<1>1. v4[r].id \in 0 .. MaxRequests
  BY DEF BatteryInv, RunnersFit, Battery!Runner
<1> DEFINE n == Battery!Gone(r, how)
<1>2. n = GoneAs(v4[r].id, how)
  BY DEF Battery!Gone, GoneAs
<1> HIDE DEF n
<1>3. n \in Battery!Runner /\ RunnerFits(n) /\ n.pc = how /\ n.id = v4[r].id
  BY <1>1, <1>2, GoneFits
<1>4. v4' = [v4 EXCEPT ![r] = n]
  BY DEF n
<1>5. how \notin Battery!Running \cup {"none"}
  BY DEF Battery!Running
<1>6. RunnerGoesOn(r, n)
  BY <1>3, <1>4, <1>5 DEF RunnerGoesOn
<1> QED BY <1>6 DEF n

\* It goes from one state to the next, or finds itself superseded.
LEMMA StepFits ==
  ASSUME BatteryAssumption, BatteryInv, NEW r \in Runners, v4[r].pc \in Battery!Running,
         NEW n \in Battery!Runner, RunnerFits(n), n.pc \in Battery!Running, n.id = v4[r].id,
         n.edits = v4[r].edits, n.trees \subseteq v4[r].trees \cup {v1},
         Battery!Step(r, n) \/ v4' = [v4 EXCEPT ![r] = n],
         UNCHANGED <<v1, v2, v3>>, ProgressFits'
  PROVE  BatteryInv'
<1>1. CASE v4' = [v4 EXCEPT ![r] = n]
  <2>1. n.pc # "none"
    BY DEF Battery!Running
  <2>2. RunnerGoesOn(r, n)
    BY <1>1, <2>1 DEF RunnerGoesOn
  <2> QED BY <2>2, RunnerGoesOnFits
<1>2. CASE v4' = [v4 EXCEPT ![r] = Battery!Gone(r, "superseded")]
  BY <1>2, RunnerGone, RunnerGoesOnFits
<1> QED BY <1>1, <1>2 DEF Battery!Step

LEMMA ShardTakes ==
  ASSUME NEW n \in Battery!Runner, NEW k \in 1 .. Shards, NEW ran \in Battery!Ran
  PROVE  /\ [n EXCEPT !.shard[k] = ran] \in Battery!Runner
         /\ [n EXCEPT !.shard[k] = ran].pc = n.pc /\ [n EXCEPT !.shard[k] = ran].id = n.id
         /\ [n EXCEPT !.shard[k] = ran].trees = n.trees /\ [n EXCEPT !.shard[k] = ran].exit = n.exit
         /\ [n EXCEPT !.shard[k] = ran].edits = n.edits
<1> DEFINE s == [n.shard EXCEPT ![k] = ran]
<1>1. s \in [1 .. Shards -> Battery!Ran]
  BY DEF Battery!Runner
<1> HIDE DEF s
<1>2. [n EXCEPT !.shard = s] \in Battery!Runner
  BY <1>1 DEF Battery!Runner
<1>3. [n EXCEPT !.shard[k] = ran] = [n EXCEPT !.shard = s]
  BY DEF s, Battery!Runner
<1> QED BY <1>2, <1>3 DEF Battery!Runner

LEMMA PublishFits ==
  ASSUME BatteryInv, NEW r, NEW over \in BOOLEAN, Battery!Publish(r, over)
  PROVE  ProgressFits'
BY DEF BatteryInv, ProgressFits, Battery!Publish

LEMMA BatteryStart ==
  ASSUME BatteryAssumption, BatteryInv, NEW r \in Runners, Battery!StartBattery(r)
  PROVE  BatteryInv'
<1> DEFINE n == [v4[r] EXCEPT !.pc = "collecting"]
<1>1. v4[r].pc = "starting" /\ UNCHANGED <<v1, v2, v3>> /\ ProgressFits'
  BY DEF Battery!StartBattery, Battery!StartProgress, ProgressFits
<1>2. v4' = [v4 EXCEPT ![r] = n]
  BY DEF Battery!StartBattery
<1>3. v4[r] \in Battery!Runner /\ v4[r].exit # 0
  BY <1>1 DEF BatteryInv, RunnersFit, RunnerFits
<1>4. /\ n \in Battery!Runner /\ n.pc = "collecting" /\ n.id = v4[r].id /\ n.trees = v4[r].trees
      /\ n.edits = v4[r].edits /\ n.exit # 0
  BY <1>3, RunnerTakes DEF Battery!Running
<1> HIDE DEF n
<1>5. RunnerFits(n) /\ "collecting" \in Battery!Running /\ "starting" \in Battery!Running
  BY <1>4 DEF RunnerFits, Battery!Running
<1> QED BY <1>1, <1>2, <1>4, <1>5, StepFits

LEMMA BatteryCollect ==
  ASSUME BatteryAssumption, BatteryInv, NEW r \in Runners, NEW found, Battery!CollectInventory(r, found)
  PROVE  BatteryInv'
<1> DEFINE pc == IF found = "failure" THEN "recording" ELSE "running"
           serial == found = "ambiguous"
           g == [v4[r] EXCEPT !.pc = pc]
           n == [g EXCEPT !.serial = serial]
<1>1. v4[r].pc = "collecting" /\ UNCHANGED <<v1, v2, v3>> /\ ProgressFits'
  BY PublishFits DEF Battery!CollectInventory
<1>2. Battery!Step(r, n)
  BY DEF Battery!CollectInventory
<1>3. v4[r] \in Battery!Runner /\ v4[r].exit # 0
  BY <1>1 DEF BatteryInv, RunnersFit, RunnerFits
<1>4. pc \in Battery!Running /\ pc # "none" /\ serial \in BOOLEAN /\ v4[r].pc \in Battery!Running
  BY <1>1 DEF Battery!Running
<1> HIDE DEF pc, serial
<1>5. /\ g \in Battery!Runner /\ g.pc = pc /\ g.id = v4[r].id /\ g.trees = v4[r].trees
      /\ g.edits = v4[r].edits /\ g.exit # 0
  BY <1>3, <1>4, RunnerTakes
<1> HIDE DEF g
<1>6. /\ n \in Battery!Runner /\ n.pc = pc /\ n.id = v4[r].id /\ n.trees = v4[r].trees
      /\ n.edits = v4[r].edits /\ n.exit # 0
  BY <1>4, <1>5 DEF Battery!Runner
<1> HIDE DEF n
<1>7. RunnerFits(n)
  BY <1>4, <1>6 DEF RunnerFits
<1> QED BY <1>1, <1>2, <1>4, <1>6, <1>7, StepFits

\* A shard of a runner that runs changes, or the runner finds itself superseded.
LEMMA ShardMoves ==
  ASSUME BatteryAssumption, BatteryInv, NEW r \in Runners, v4[r].pc = "running",
         NEW k \in 1 .. Shards, NEW ran \in Battery!Ran,
         Battery!Step(r, [v4[r] EXCEPT !.shard[k] = ran]), Battery!Publish(r, FALSE), UNCHANGED <<v1, v2, v3>>
  PROVE  BatteryInv'
<1> DEFINE n == [v4[r] EXCEPT !.shard[k] = ran]
<1>1. v4[r] \in Battery!Runner /\ v4[r].exit # 0
  BY DEF BatteryInv, RunnersFit, RunnerFits
<1>2. /\ n \in Battery!Runner /\ n.pc = "running" /\ n.id = v4[r].id /\ n.trees = v4[r].trees
      /\ n.edits = v4[r].edits /\ n.exit # 0
  BY <1>1, ShardTakes
<1>3. Battery!Step(r, n) /\ ProgressFits'
  BY PublishFits
<1> HIDE DEF n
<1>4. RunnerFits(n) /\ "running" \in Battery!Running
  BY <1>2 DEF RunnerFits, Battery!Running
<1> QED BY <1>2, <1>3, <1>4, StepFits

LEMMA BatteryShards ==
  ASSUME BatteryAssumption, BatteryInv, NEW r \in Runners, NEW k \in 1 .. Shards,
         \/ Battery!CompleteEmptyShard(r, k)
         \/ \E ran \in {"whole", "short", "failed"} : Battery!EndShard(r, k, ran)
  PROVE  BatteryInv'
<1>1. v4[r].pc = "running" /\ UNCHANGED <<v1, v2, v3>> /\ Battery!Publish(r, FALSE)
  BY DEF Battery!CompleteEmptyShard, Battery!EndShard
<1>2. PICK ran \in Battery!Ran : Battery!Step(r, [v4[r] EXCEPT !.shard[k] = ran])
  BY DEF Battery!CompleteEmptyShard, Battery!EndShard, Battery!Ran
<1> QED BY <1>1, <1>2, ShardMoves

LEMMA BatteryRunShard ==
  ASSUME BatteryAssumption, BatteryInv, NEW r \in Runners, NEW k \in 1 .. Shards, Battery!RunShard(r, k)
  PROVE  BatteryInv'
<1> DEFINE g == [v4[r] EXCEPT !.shard[k] = "running"]
           h == [g EXCEPT !.trees = v4[r].trees \cup {v1}]
<1>1. v4[r].pc = "running" /\ UNCHANGED <<v1, v2, v3, v5>>
  BY DEF Battery!RunShard
<1>2. v4[r] \in Battery!Runner /\ v4[r].exit # 0 /\ v4 \in [Runners -> Battery!Runner] /\ v1 \in Battery!Trees
  BY <1>1 DEF BatteryInv, RunnersFit, RunnerFits
<1>3. /\ g \in Battery!Runner /\ g.pc = "running" /\ g.id = v4[r].id /\ g.trees = v4[r].trees /\ g.exit # 0
      /\ g.edits = v4[r].edits
  BY <1>1, <1>2, ShardTakes DEF Battery!Ran
<1>4. /\ h \in Battery!Runner /\ h.pc = "running" /\ h.id = v4[r].id /\ h.trees = v4[r].trees \cup {v1} /\ h.exit # 0
      /\ h.edits = v4[r].edits
  <2> HIDE DEF g
  <2> QED BY <1>2, <1>3 DEF Battery!Runner
<1>5. v4' = [v4 EXCEPT ![r] = h]
  <2>1. v4' = [[v4 EXCEPT ![r].shard[k] = "running"] EXCEPT ![r].trees = @ \cup {v1}]
    BY DEF Battery!RunShard
  <2>2. [v4 EXCEPT ![r].shard[k] = "running"] = [v4 EXCEPT ![r] = g]
    OBVIOUS
  <2> HIDE DEF g
  <2>3. [[v4 EXCEPT ![r] = g] EXCEPT ![r].trees = @ \cup {v1}] = [v4 EXCEPT ![r] = [g EXCEPT !.trees = g.trees \cup {v1}]]
    BY <1>2
  <2> QED BY <1>3, <2>1, <2>2, <2>3
<1> HIDE DEF h
<1>6. RunnerFits(h) /\ "running" \in Battery!Running /\ ProgressFits'
  BY <1>1, <1>4 DEF RunnerFits, Battery!Running, BatteryInv, ProgressFits
<1> QED BY <1>1, <1>4, <1>5, <1>6, StepFits

LEMMA BatteryMerge ==
  ASSUME BatteryAssumption, BatteryInv, NEW r \in Runners, Battery!MergeShards(r)
  PROVE  BatteryInv'
<1> DEFINE x == IF \A k \in Battery!Used(v4[r]) : Battery!Code(v4[r], k) = 0 THEN 0 ELSE 1
           g == [v4[r] EXCEPT !.pc = "recording"]
           h == [g EXCEPT !.exit = x]
<1>1. v4[r].pc = "running" /\ UNCHANGED <<v1, v2, v3>> /\ ProgressFits'
  BY PublishFits DEF Battery!MergeShards
<1>2. v4[r] \in Battery!Runner /\ "running" \in Battery!Running /\ "recording" \in Battery!Running
  BY DEF BatteryInv, RunnersFit, Battery!Running
<1>3. x \in {0, 1} /\ (x = 0 => WholeRun(v4[r]))
  <2>1. ASSUME \A k \in Battery!Used(v4[r]) : Battery!Code(v4[r], k) = 0
        PROVE  WholeRun(v4[r])
    <3>1. CASE v4[r].serial
      BY <2>1, <3>1 DEF Battery!Used, Battery!Code, WholeRun
    <3>2. CASE ~v4[r].serial
      BY <2>1, <3>2 DEF Battery!Used, Battery!Code, WholeRun
    <3> QED BY <3>1, <3>2
  <2> QED BY <2>1
<1> HIDE DEF x
<1>4. /\ g \in Battery!Runner /\ g.pc = "recording" /\ g.id = v4[r].id /\ g.trees = v4[r].trees
      /\ g.shard = v4[r].shard /\ g.edits = v4[r].edits /\ g.serial = v4[r].serial
  BY <1>2, RunnerTakes
<1> HIDE DEF g
<1>5. /\ h \in Battery!Runner /\ h.pc = "recording" /\ h.id = v4[r].id /\ h.trees = v4[r].trees
      /\ h.shard = v4[r].shard /\ h.edits = v4[r].edits /\ h.serial = v4[r].serial /\ h.exit = x
  BY <1>3, <1>4 DEF Battery!Runner
<1>6. Battery!Step(r, h)
  BY DEF Battery!MergeShards, g, x
<1> HIDE DEF h
<1>7. RunnerFits(h)
  BY <1>3, <1>5 DEF RunnerFits, WholeRun
<1> QED BY <1>1, <1>2, <1>5, <1>6, <1>7, StepFits

\* The record: only of the launch that is still there, and of its tree.
LEMMA BatteryRecord ==
  ASSUME BatteryAssumption, BatteryInv, NEW r \in Runners, Battery!RecordResult(r)
  PROVE  BatteryInv'
<1> DEFINE q == v2[Len(v2)]
           whole == /\ Battery!LiveOne /\ q.id = v4[r].id /\ q.nonce = r /\ q.state = "launched"
                    /\ Battery!Outcome(r) = "completed"
           n == IF whole THEN [v4[r] EXCEPT !.pc = "over"] ELSE Battery!Gone(r, "over")
<1>1. v4[r].pc = "recording" /\ UNCHANGED <<v1, v3, v5>> /\ v4' = [v4 EXCEPT ![r] = n]
  BY DEF Battery!RecordResult, Battery!Last
<1>2. v4[r] \in Battery!Runner /\ RunnerFits(v4[r]) /\ v4[r].id \in 0 .. MaxRequests
  BY DEF BatteryInv, RunnersFit, Battery!Runner
<1>3. /\ n \in Battery!Runner /\ RunnerFits(n) /\ n.pc = "over" /\ n.id = v4[r].id
      /\ whole => /\ n.trees = v4[r].trees /\ n.shard = v4[r].shard
                  /\ n.serial = v4[r].serial /\ n.edits = v4[r].edits
  <2>1. CASE whole
    <3> DEFINE m == [v4[r] EXCEPT !.pc = "over"]
    <3>1. /\ m \in Battery!Runner /\ m.pc = "over" /\ m.id = v4[r].id /\ m.trees = v4[r].trees
          /\ m.shard = v4[r].shard /\ m.serial = v4[r].serial /\ m.edits = v4[r].edits /\ m.exit = v4[r].exit
      BY <1>2, RunnerTakes
    <3>2. n = m
      BY <2>1
    <3> HIDE DEF m, n
    <3>3. RunnerFits(m)
      BY <1>2, <3>1 DEF RunnerFits, WholeRun
    <3> QED BY <3>1, <3>2, <3>3
  <2>2. CASE ~whole
    <3>1. n = GoneAs(v4[r].id, "over")
      BY <2>2 DEF Battery!Gone, GoneAs
    <3> HIDE DEF n
    <3> QED BY <1>2, <2>2, <3>1, GoneFits
  <2> QED BY <2>1, <2>2
<1>w. whole => q.on = v1 /\ v4[r].exit = 0
  BY DEF Battery!Outcome, Battery!Last
<1> HIDE DEF n
<1>4. RunnersFit' /\ \A u \in Runners : v4'[u] = IF u = r THEN n ELSE v4[u]
  BY <1>1, <1>3 DEF BatteryInv, RunnersFit
\* What fitted fits still, if its request is as it was.
<1>5. ASSUME NEW i \in 1 .. Len(v2), v2'[i] = v2[i]
      PROVE  LaunchFits(v2[i])' /\ CompletionFits(v2[i])'
  <2>1. LaunchFits(v2[i]) /\ CompletionFits(v2[i])
    BY DEF BatteryInv, RequestsFit
  <2>2. LaunchFits(v2[i])'
    BY <1>1, <1>3, <1>4, <1>5, <2>1 DEF LaunchFits, OnItsTree, Battery!Running
  <2>3. CompletionFits(v2[i])'
    <3> SUFFICES ASSUME v2[i].state = "completed"
                 PROVE  \E u \in Runners : Completes(v4'[u], v2[i])
      BY <1>5 DEF CompletionFits
    <3>1. PICK u \in Runners : Completes(v4[u], v2[i])
      BY <2>1 DEF CompletionFits
    <3>2. u # r
      BY <1>1, <3>1 DEF Completes
    <3> QED BY <1>4, <3>1, <3>2
  <2> QED BY <2>2, <2>3
<1>6. CASE UNCHANGED v2
  <2>1. RequestsFit'
    BY <1>5, <1>6 DEF BatteryInv, RequestsFit
  <2> QED BY <1>1, <1>4, <2>1 DEF BatteryInv, ProgressFits
<1>7. ASSUME NEW to \in {"invalidated", "failed", "completed"}, Battery!Becomes(to), Battery!LiveOne,
             to = "completed" => whole, q.id = v4[r].id, q.nonce = r, q.state = "launched"
      PROVE  BatteryInv'
  <2>1. /\ v2' \in Seq(Battery!Request) /\ Len(v2') = Len(v2) /\ Len(v2) \in Nat \ {0}
        /\ \A i \in 1 .. Len(v2) - 1 : v2'[i] = v2[i]
        /\ v2'[Len(v2)].state = to /\ v2'[Len(v2)].id = q.id /\ v2'[Len(v2)].on = q.on
    BY <1>7, BecomesIs DEF Battery!States
  <2>2. LaunchFits(v2[Len(v2)])'
    BY <1>7, <2>1 DEF LaunchFits
  <2>3. CompletionFits(v2[Len(v2)])'
    <3>1. LaunchFits(q)
      BY <2>1 DEF BatteryInv, RequestsFit
    <3>2. CASE to = "completed"
      <4>1. /\ v4[r].exit = 0 /\ q.on = v1 /\ n.trees = v4[r].trees /\ n.shard = v4[r].shard
            /\ n.serial = v4[r].serial /\ n.edits = v4[r].edits
        BY <1>3, <1>7, <1>w, <3>2
      <4>2. WholeRun(n)
        BY <1>2, <4>1 DEF RunnerFits, WholeRun
      <4>3. OnItsTree(v4[r], q.on, v1) /\ v4[r].pc \in Battery!Running /\ v4[r].edits \in 0 .. 2
        BY <1>1, <1>2, <1>7, <3>1 DEF LaunchFits, Battery!Running, Battery!Runner
      <4>4. n.edits < 2 => n.trees \subseteq {q.on}
        BY <4>1, <4>3 DEF OnItsTree
      <4>5. Completes(n, v2'[Len(v2)])
        BY <1>3, <1>7, <2>1, <4>2, <4>4 DEF Completes
      <4>6. Completes(v4'[r], v2'[Len(v2')])
        BY <1>4, <2>1, <4>5
      <4> QED BY <4>6 DEF CompletionFits
    <3>3. CASE to # "completed"
      BY <2>1, <3>3 DEF CompletionFits
    <3> QED BY <3>2, <3>3
  <2>4. \A i \in 1 .. Len(v2) : LaunchFits(v2[i])' /\ CompletionFits(v2[i])'
    BY <1>5, <2>1, <2>2, <2>3
  <2>5. RequestsFit'
    BY <2>1, <2>4 DEF BatteryInv, RequestsFit
  <2> QED BY <1>1, <1>4, <2>5 DEF BatteryInv, ProgressFits
<1>8. CASE Battery!LiveOne /\ q.id = v4[r].id /\ q.nonce = r /\ q.state = "launched"
  <2>1. \E to \in {"invalidated", "failed", "completed"} :
            Battery!Becomes(to) /\ (to = "completed" => whole)
    BY <1>8 DEF Battery!RecordResult, Battery!Last, Battery!Outcome
  <2> QED BY <1>7, <1>8, <2>1
<1>9. CASE ~(Battery!LiveOne /\ q.id = v4[r].id /\ q.nonce = r /\ q.state = "launched")
  BY <1>6, <1>9 DEF Battery!RecordResult, Battery!Last
<1> QED BY <1>8, <1>9

LEMMA BatteryKill ==
  ASSUME BatteryAssumption, BatteryInv, NEW r \in Runners, Battery!Kill(r)
  PROVE  BatteryInv'
<1>1. v4[r].pc \in Battery!Running /\ UNCHANGED <<v1, v2, v3, v5>>
  BY DEF Battery!Kill
<1>2. v4' = [v4 EXCEPT ![r] = Battery!Gone(r, "killed")]
  BY DEF Battery!Kill
<1> QED BY <1>1, <1>2, RunnerGone, RunnerGoesOnFits DEF BatteryInv, ProgressFits

\* The progress file.
LEMMA BatteryAround ==
  ASSUME BatteryInv, UNCHANGED <<v1, v2, v3, v4>>, ProgressFits'
  PROVE  BatteryInv'
<1>1. ASSUME NEW i \in 1 .. Len(v2)
      PROVE  LaunchFits(v2[i])' /\ CompletionFits(v2[i])'
  BY DEF BatteryInv, RequestsFit, LaunchFits, CompletionFits
<1>2. RequestsFit'
  BY <1>1 DEF BatteryInv, RequestsFit
<1> QED BY <1>2 DEF BatteryInv, RunnersFit

LEMMA BatteryOthers ==
  ASSUME BatteryInv,
         \/ Battery!RunByHand \/ Battery!Stall
         \/ \E r \in Runners : Battery!Heartbeat(r)
  PROVE  BatteryInv'
<1>1. UNCHANGED <<v1, v2, v3, v4>>
  BY DEF Battery!RunByHand, Battery!Stall, Battery!Heartbeat
<1>2. ProgressFits'
  <2>1. CASE Battery!RunByHand
    BY <2>1 DEF ProgressFits, Battery!RunByHand, Battery!StartProgress
  <2>2. CASE v5' = [v5 EXCEPT !.fresh = TRUE] \/ v5' = [v5 EXCEPT !.fresh = FALSE]
    BY <2>2 DEF BatteryInv, ProgressFits
  <2> QED BY <2>1, <2>2 DEF Battery!Stall, Battery!Heartbeat
<1> QED BY <1>1, <1>2, BatteryAround

\* An edit takes the tree away from the runners, a second one may bring it back.
LEMMA BatteryEdit ==
  ASSUME BatteryInv, NEW content \in Battery!Trees, Battery!Edit(content)
  PROVE  BatteryInv'
<1>1. /\ v1' = content /\ content # v1 /\ UNCHANGED <<v2, v3, v5>>
      /\ v4' = [r \in Runners |-> IF v4[r].pc \in Battery!Running /\ v4[r].edits < 2
                                 THEN [v4[r] EXCEPT !.edits = @ + 1] ELSE v4[r]]
  BY DEF Battery!Edit
<1>2. ASSUME NEW r \in Runners
      PROVE  /\ v4'[r] \in Battery!Runner /\ RunnerFits(v4'[r])
             /\ v4'[r].pc = v4[r].pc /\ v4'[r].id = v4[r].id /\ v4'[r].trees = v4[r].trees
             /\ v4[r].pc \in Battery!Running =>
                   /\ v4'[r].edits # 0
                   /\ v4'[r].edits = 1 => v4[r].edits = 0
             /\ v4[r].pc \notin Battery!Running => v4'[r] = v4[r]
  <2>1. v4[r] \in Battery!Runner /\ RunnerFits(v4[r]) /\ v4[r].edits \in 0 .. 2
    BY DEF BatteryInv, RunnersFit, Battery!Runner
  <2>2. CASE v4[r].pc \in Battery!Running /\ v4[r].edits < 2
    <3> DEFINE more == v4[r].edits + 1
               n == [v4[r] EXCEPT !.edits = more]
    <3>1. more \in {1, 2} /\ (more = 1 => v4[r].edits = 0)
      BY <2>1, <2>2
    <3>2. v4'[r] = n
      BY <1>1, <2>2
    <3> HIDE DEF more
    <3>3. /\ n \in Battery!Runner /\ n.pc = v4[r].pc /\ n.id = v4[r].id /\ n.trees = v4[r].trees
          /\ n.edits = more /\ n.exit = v4[r].exit /\ n.shard = v4[r].shard /\ n.serial = v4[r].serial
      BY <2>1, <3>1 DEF Battery!Runner
    <3> HIDE DEF n
    <3>4. n.pc # "none"
      BY <2>2, <3>3 DEF Battery!Running
    <3>5. RunnerFits(n)
      BY <2>1, <3>3, <3>4 DEF RunnerFits, WholeRun
    <3> QED BY <2>2, <3>1, <3>2, <3>3, <3>5
  <2>3. CASE ~(v4[r].pc \in Battery!Running /\ v4[r].edits < 2)
    BY <1>1, <2>1, <2>3
  <2> QED BY <2>2, <2>3
<1>3. RunnersFit'
  BY <1>1, <1>2 DEF RunnersFit
<1>4. ASSUME NEW i \in 1 .. Len(v2)
      PROVE  LaunchFits(v2[i])' /\ CompletionFits(v2[i])'
  <2>1. LaunchFits(v2[i]) /\ CompletionFits(v2[i]) /\ v2'[i] = v2[i]
    BY <1>1 DEF BatteryInv, RequestsFit
  <2>2. LaunchFits(v2[i])'
    <3>1. CASE v2[i].state = "launched"
      <4> DEFINE r == v2[i].nonce
      <4>1. r \in Runners /\ v4[r].id = v2[i].id /\ v4[r].pc # "none" /\ OnItsTree(v4[r], v2[i].on, v1)
        BY <2>1, <3>1 DEF LaunchFits
      <4>2. OnItsTree(v4'[r], v2[i].on, v1')
        BY <1>1, <1>2, <4>1 DEF OnItsTree
      <4> QED BY <1>2, <2>1, <4>1, <4>2 DEF LaunchFits
    <3>2. CASE v2[i].state # "launched"
      BY <2>1, <3>2 DEF LaunchFits
    <3> QED BY <3>1, <3>2
  <2>3. CompletionFits(v2[i])'
    <3> SUFFICES ASSUME v2[i].state = "completed"
                 PROVE  \E u \in Runners : Completes(v4'[u], v2[i])
      BY <2>1 DEF CompletionFits
    <3>1. PICK u \in Runners : Completes(v4[u], v2[i])
      BY <2>1 DEF CompletionFits
    <3>2. v4[u].pc \notin Battery!Running
      BY <3>1 DEF Completes, Battery!Running
    <3> QED BY <1>2, <3>1, <3>2
  <2> QED BY <2>2, <2>3
<1>5. RequestsFit'
  BY <1>1, <1>4 DEF BatteryInv, RequestsFit
<1> QED BY <1>1, <1>3, <1>5 DEF BatteryInv, ProgressFits

LEMMA BatteryNext ==
  ASSUME BatteryAssumption, BatteryInv, Battery!Next
  PROVE  BatteryInv'
<1>1. CASE \/ Battery!RegressionRequest \/ Battery!RegressionCancel \/ Battery!RegressionFinalize
           \/ \E late, accept \in BOOLEAN : Battery!RegressionDecide(accept, late)
  BY <1>1, BatteryRequest, BatteryDecisions
<1>2. CASE \E late \in BOOLEAN, r \in Runners : Battery!RegressionRun(r, late)
  BY <1>2, BatteryRun
<1>3. ASSUME NEW r \in Runners, Battery!Ending(r)
      PROVE  BatteryInv'
  <2>1. CASE Battery!StartBattery(r) \/ Battery!MergeShards(r) \/ Battery!RecordResult(r)
    BY <2>1, BatteryStart, BatteryMerge, BatteryRecord
  <2>2. CASE \E found \in Battery!Collected : Battery!CollectInventory(r, found)
    BY <2>2, BatteryCollect
  <2>3. ASSUME NEW k \in 1 .. Shards,
               \/ Battery!CompleteEmptyShard(r, k) \/ Battery!RunShard(r, k)
               \/ \E ran \in {"whole", "short", "failed"} : Battery!EndShard(r, k, ran)
        PROVE  BatteryInv'
    BY <2>3, BatteryShards, BatteryRunShard
  <2> QED BY <1>3, <2>1, <2>2, <2>3 DEF Battery!Ending
<1>4. CASE \/ \E r \in Runners : Battery!Heartbeat(r) \/ Battery!Kill(r)
           \/ Battery!RunByHand \/ Battery!Stall \/ \E content \in Battery!Trees : Battery!Edit(content)
  BY <1>4, BatteryOthers, BatteryEdit, BatteryKill
<1> QED BY <1>1, <1>2, <1>3, <1>4 DEF Battery!Next

LEMMA BatteryStutter ==
  ASSUME BatteryInv, UNCHANGED Shared
  PROVE  BatteryInv'
<1>1. UNCHANGED <<v1, v2, v3, v4, v5>>
  BY DEF Shared
<1>2. ProgressFits'
  BY <1>1 DEF BatteryInv, ProgressFits
<1> QED BY <1>1, <1>2, BatteryAround

-----------------------------------------------------------------------------
(* FleetCollector, with any issues, commits and bounds. *)

FleetAssumption ==
  /\ Issues \subseteq Nat /\ Issues # {} /\ PageSize \in Nat \ {0}
  /\ MaxTime \in Nat /\ FleetEdits \in Nat /\ FleetTroubles \in Nat /\ MaxRegistry \in Nat
  /\ Nothing \notin Fleet!Entry \cup Fleet!Reading

\* A bounded set of numbers has a greatest one.
LEMMA GreatestOf ==
  ASSUME NEW m \in Nat, NEW T \in SUBSET (0..m), T # {}
  PROVE  \E x \in T : \A y \in T : y <= x
<1> DEFINE below == {k \in 0..m : m - k \in T}
<1>1. below \subseteq Nat
  OBVIOUS
<1>2. below # {}
  <2>1. PICK y \in T : TRUE
    OBVIOUS
  <2>2. y \in 0..m /\ m - y \in 0..m /\ m - (m - y) = y
    OBVIOUS
  <2>3. m - y \in below
    BY <2>2
  <2> QED BY <2>3
<1>3. PICK k \in below : \A j \in below : k <= j
  <2> HIDE DEF below
  <2> QED BY <1>1, <1>2, LeastOf
<1>4. ASSUME NEW y \in T PROVE y <= m - k
  <2>1. y \in 0..m /\ m - y \in 0..m /\ m - (m - y) = y /\ k \in 0..m
    OBVIOUS
  <2>2. m - y \in below
    BY <2>1
  <2>3. k <= m - y
    BY <1>3, <2>2
  <2> QED BY <2>1, <2>3
<1> QED BY <1>3, <1>4

\* Newest is the latest of the times, or the beginning.
LEMMA NewestIs ==
  ASSUME FleetAssumption, NEW T \in SUBSET Fleet!Times
  PROVE  /\ Fleet!Newest(T) \in T \cup {0} /\ Fleet!Newest(T) \in Fleet!Times
         /\ \A u \in T : u <= Fleet!Newest(T)
<1>1. MaxTime \in Nat /\ T \cup {0} \in SUBSET (0..MaxTime) /\ T \cup {0} # {}
  BY DEF FleetAssumption, Fleet!Times
<1>2. \E x \in T \cup {0} : \A y \in T \cup {0} : y <= x
  BY <1>1, GreatestOf
<1>3. \E x \in T \cup {0} : \A u \in T : u <= x
  BY <1>2
<1> QED BY <1>1, <1>3 DEF Fleet!Newest, Fleet!Times

LEMMA RowIs ==
  ASSUME FleetAssumption, NEW r \in Fleet!Row
  PROVE  r.number \in Issues /\ r.number \in Nat /\ r.updated \in Fleet!Times /\ r.updated \in Nat /\ r.rev \in Nat
<1>1. Issues \subseteq Nat /\ MaxTime \in Nat /\ FleetEdits \in Nat
  BY DEF FleetAssumption
<1>2. r.number \in Issues /\ r.updated \in Fleet!Times /\ r.rev \in 0..FleetEdits
  BY DEF Fleet!Row
<1>3. r.number \in Nat
  BY <1>1, <1>2
<1>4. r.updated \in Nat
  BY <1>1, <1>2 DEF Fleet!Times
<1>5. r.rev \in Nat
  BY <1>1, <1>2
<1> QED BY <1>2, <1>3, <1>4, <1>5

LEMMA UpdatesAre ==
  ASSUME FleetAssumption, NEW rows \in SUBSET Fleet!Row
  PROVE  /\ Fleet!Newest(Fleet!Updates(rows)) \in Fleet!Times
         /\ Fleet!Newest(Fleet!Updates(rows)) \in Nat
         /\ \A r \in rows : r.updated <= Fleet!Newest(Fleet!Updates(rows))
<1>1. Fleet!Updates(rows) \in SUBSET Fleet!Times
  BY RowIs DEF Fleet!Updates
<1>2. \A r \in rows : r.updated \in Fleet!Updates(rows)
  BY DEF Fleet!Updates
<1> QED BY <1>1, <1>2, NewestIs DEF Fleet!Times

\* What a cache may hold as the project's issues: one row each, none from the
\* future, and all that GitHub has from before the newest of them.
Fits(rows, now, github) ==
  /\ rows \subseteq Fleet!Row /\ Fleet!OneRowEach(rows)
  /\ \A r \in rows : r.updated <= now
  /\ \A r \in github : r.updated < Fleet!Newest(Fleet!Updates(rows)) => r \in rows

\* An entry of the cache: its ETag was earned by some of its rows.
EntryTyped(e) ==
  /\ e \in Fleet!Entry /\ e.since = Fleet!Newest(Fleet!Updates(e.issues))
EntryFits(e, now, github) ==
  /\ Fits(e.issues, now, github)
  /\ ~e.full => e.etag \subseteq e.issues

\* What the pass under way will leave in the cache; once its first page is read
\* that has whatever nobody touches.
Got(reading, entry) == IF reading.full THEN reading.items ELSE Fleet!Merged(entry.issues, reading.items)
ReadingTyped(reading, entry) ==
  /\ reading \in Fleet!Reading
  /\ reading.full => reading.since = 0
  /\ ~reading.full => entry # Nothing /\ reading.since = entry.since
ReadingFits(reading, entry, now, github, edits) ==
  /\ \A r \in reading.start : r.rev <= edits
  /\ reading.page = 1 => reading.items = {} /\ ~reading.done
  /\ reading.page > 1 => /\ Fits(Got(reading, entry), now, github)
                         /\ github \cap reading.start \subseteq Got(reading, entry)
                         /\ ~reading.full => reading.first \subseteq Got(reading, entry)

FleetTypes ==
  /\ v1 \in Fleet!Times /\ v2 \subseteq Fleet!Row /\ v3 \subseteq Commits /\ v4 \in 0..FleetEdits
  /\ Fleet!OneRowEach(v2) /\ \A r \in v2 : r.updated <= v1 /\ r.rev <= v4
  /\ v5 # Nothing => EntryTyped(v5)
  /\ v6 # Nothing => EntryTyped(v6)
  /\ v7 # Nothing => ReadingTyped(v7, v5)
  /\ v8 \in 0..MaxRegistry /\ v9 \in 0..v8 /\ v10 \in -1..v8
  /\ v11 \in {"pass", "read", "swapped", "done", "wait"} /\ (v11 = "read") = (v7 # Nothing)
  /\ v12 \in 0..FleetTroubles

FleetStory ==
  /\ v5 # Nothing => EntryFits(v5, v1, v2)
  /\ v6 # Nothing => EntryFits(v6, v1, v2)
  /\ v7 # Nothing => ReadingFits(v7, v5, v1, v2, v4)

FleetInv == FleetTypes /\ (Fleet!FitsOnePage => FleetStory)

LEMMA FleetTypeCorrect == FleetAssumption /\ FleetInv => Fleet!TypeOK
<1> SUFFICES ASSUME FleetAssumption, FleetInv PROVE Fleet!TypeOK
  OBVIOUS
<1>1. {v5, v6} \subseteq {Nothing} \cup Fleet!Entry /\ v7 \in {Nothing} \cup Fleet!Reading
  BY DEF FleetInv, FleetTypes, EntryTyped, ReadingTyped
<1>2. ASSUME NEW e \in {v5, v6} \ {Nothing}
      PROVE  e.since = Fleet!Newest(Fleet!Updates(e.issues)) /\ (Fleet!FitsOnePage => Fleet!OneRowEach(e.issues))
  BY <1>2 DEF FleetInv, FleetTypes, FleetStory, EntryTyped, EntryFits, Fits
<1> QED BY <1>1, <1>2 DEF FleetInv, FleetTypes, Fleet!TypeOK

LEMMA FleetInit == FleetAssumption /\ Fleet!Init => FleetInv
<1> SUFFICES ASSUME FleetAssumption, Fleet!Init PROVE FleetInv
  OBVIOUS
<1> DEFINE i == CHOOSE i \in Issues : \A j \in Issues : i <= j
           row == [number |-> i, updated |-> 0, rev |-> 0]
<1>1. i \in Issues
  <2>1. \E x \in Issues : \A y \in Issues : x <= y
    BY LeastOf DEF FleetAssumption
  <2> QED BY <2>1
<1>2. v2 = {row}
  BY Zenon DEF Fleet!Init
<1>3. row \in Fleet!Row /\ row.updated = 0 /\ row.rev = 0
  <2> HIDE DEF i
  <2> QED BY <1>1 DEF Fleet!Row, Fleet!Times, FleetAssumption
<1>4. v1 = 0 /\ v3 = {} /\ v4 = 0 /\ v5 = Nothing /\ v6 = Nothing /\ v7 = Nothing /\ v8 = 0 /\ v9 = 0 /\ v10 = -1
      /\ v11 = "pass" /\ v12 = 0
  BY DEF Fleet!Init
<1> HIDE DEF row
<1> QED BY <1>2, <1>3, <1>4 DEF FleetInv, FleetTypes, FleetStory, Fleet!OneRowEach, Fleet!Times, FleetAssumption

\* GitHub moves on: time does not go back, and what it lists anew is of now.
LEMMA StillFits ==
  ASSUME NEW rows, NEW now, NEW gh, NEW now1, NEW gh1, Fits(rows, now, gh), FleetAssumption,
         now \in Fleet!Times, now1 \in Fleet!Times, now <= now1,
         \A r \in gh1 : r \in gh \/ r.updated = now
  PROVE  Fits(rows, now1, gh1)
<1>1. now \in Nat /\ now1 \in Nat
  BY DEF Fleet!Times, FleetAssumption
<1>2. \A r \in rows : r.updated \in Nat /\ r.updated <= now
  BY RowIs DEF Fits
<1> DEFINE n == Fleet!Newest(Fleet!Updates(rows))
<1>3. n \in Nat /\ n <= now
  <2>1. Fleet!Updates(rows) \in SUBSET Fleet!Times
    BY RowIs DEF Fleet!Updates, Fits
  <2>2. n \in Fleet!Updates(rows) \cup {0} /\ n \in Nat
    BY <2>1, NewestIs, UpdatesAre DEF Fits
  <2>3. n \in Fleet!Updates(rows) => \E r \in rows : n = r.updated
    BY DEF Fleet!Updates
  <2> QED BY <1>1, <1>2, <2>2, <2>3
<1> HIDE DEF n
<1>4. \A r \in gh1 : r.updated < n => r \in rows
  <2>1. \A r \in gh : r.updated < n => r \in rows
    BY DEF Fits, n
  <2>2. ~(now < n)
    BY <1>1, <1>3
  <2> QED BY <2>1, <2>2
<1>5. \A r \in rows : r.updated <= now1
  BY <1>1, <1>2
<1> QED BY <1>4, <1>5 DEF Fits, n

\* Nothing but GitHub.
LEMMA GitHubMoves ==
  ASSUME FleetAssumption, FleetInv, UNCHANGED <<v5, v6, v7, v8, v9, v10, v11, v12>>,
         v1' \in Fleet!Times, v1 <= v1', v3' \subseteq Commits, v4' \in 0..FleetEdits, v4 <= v4',
         v2' \subseteq Fleet!Row, Fleet!OneRowEach(v2'),
         \A r \in v2' : r \in v2 \/ (r.updated = v1 /\ r.rev = v4 + 1 /\ v4' = v4 + 1)
  PROVE  FleetInv'
<1>1. FleetTypes /\ v1 \in Nat /\ v1' \in Nat /\ v4 \in Nat /\ v4' \in Nat
  BY DEF FleetInv, FleetTypes, FleetAssumption, Fleet!Times
<1>2. \A r \in v2' : r.updated <= v1' /\ r.rev <= v4'
  <2> SUFFICES ASSUME NEW r \in v2' PROVE r.updated <= v1' /\ r.rev <= v4'
    OBVIOUS
  <2>1. r.updated \in Nat /\ r.rev \in Nat
    BY RowIs
  <2>2. r \in v2 => r.updated <= v1 /\ r.rev <= v4
    BY <1>1 DEF FleetTypes
  <2> QED BY <1>1, <2>1, <2>2
<1>3. FleetTypes'
  BY <1>1, <1>2 DEF FleetTypes, EntryTyped, ReadingTyped
<1>4. ASSUME Fleet!FitsOnePage PROVE FleetStory'
  <2>1. FleetStory /\ \A r \in v2' : r \in v2 \/ r.updated = v1
    BY <1>4 DEF FleetInv
  <2>2. ASSUME NEW rows, Fits(rows, v1, v2) PROVE Fits(rows, v1', v2')
    BY <1>1, <2>1, <2>2, StillFits DEF FleetTypes
  <2>3. v5' # Nothing => EntryFits(v5', v1', v2')
    BY <2>1, <2>2 DEF FleetStory, EntryFits
  <2>4. v6' # Nothing => EntryFits(v6', v1', v2')
    BY <2>1, <2>2 DEF FleetStory, EntryFits
  <2>5. ASSUME v7' # Nothing PROVE ReadingFits(v7', v5', v1', v2', v4')
    <3>1. v7' = v7 /\ v5' = v5 /\ ReadingFits(v7, v5, v1, v2, v4) /\ v7.start \in SUBSET Fleet!Row
      BY <1>1, <2>1, <2>5 DEF FleetStory, FleetTypes, ReadingTyped, Fleet!Reading
    <3>2. \A r \in v7.start : r.rev \in Nat /\ r.rev <= v4 /\ r.rev <= v4'
      BY <1>1, <3>1, RowIs DEF ReadingFits
    <3>3. v2' \cap v7.start \subseteq v2
      <4> SUFFICES ASSUME NEW r \in v2', r \in v7.start PROVE r \in v2
        OBVIOUS
      <4>1. r.rev # v4 + 1
        BY <1>1, <3>2
      <4> QED BY <4>1
    <3>4. v7.page > 1 => Fits(Got(v7, v5), v1', v2')
      BY <2>2, <3>1 DEF ReadingFits
    <3> QED BY <3>1, <3>2, <3>3, <3>4 DEF ReadingFits
  <2> QED BY <2>3, <2>4, <2>5 DEF FleetStory
<1> QED BY <1>3, <1>4 DEF FleetInv

LEMMA GitHubNext ==
  ASSUME FleetAssumption, FleetInv,
         \/ \E r \in v2 : Fleet!Edit(r) \/ Fleet!Delete(r)
         \/ \E i \in Issues : Fleet!Open(i)
         \/ \E c \in Commits : Fleet!Push(c)
         \/ Fleet!Tick
  PROVE  FleetInv'
<1>1. /\ v1 \in Fleet!Times /\ v1 \in Nat /\ v2 \subseteq Fleet!Row /\ v3 \subseteq Commits /\ v4 \in 0..FleetEdits
      /\ v4 \in Nat /\ Fleet!OneRowEach(v2) /\ FleetEdits \in Nat /\ MaxTime \in Nat
  BY DEF FleetInv, FleetTypes, FleetAssumption, Fleet!Times
<1>2. ASSUME NEW i \in Issues, v4 < FleetEdits
      PROVE  /\ Fleet!Fresh(i) \in Fleet!Row /\ Fleet!Fresh(i).number = i
             /\ Fleet!Fresh(i).updated = v1 /\ Fleet!Fresh(i).rev = v4 + 1
  BY <1>1, <1>2 DEF Fleet!Fresh, Fleet!Row
<1>3. \A r \in v2 : r.number \in Issues
  BY <1>1, RowIs
<1>4. ASSUME NEW r \in v2, Fleet!Edit(r) PROVE FleetInv'
  <2>1. /\ v4 < FleetEdits /\ v4' = v4 + 1 /\ v2' = (v2 \ {r}) \cup {Fleet!Fresh(r.number)}
        /\ UNCHANGED <<v1, v3, v5, v6, v7, v8, v9, v10, v11, v12>>
    BY <1>4 DEF Fleet!Edit, Fleet!World, Fleet!cache, Fleet!loop
  <2>2. Fleet!OneRowEach(v2')
    BY <1>1, <1>2, <1>3, <2>1 DEF Fleet!OneRowEach
  <2>3. v2' \subseteq Fleet!Row /\ \A q \in v2' : q \in v2 \/ (q.updated = v1 /\ q.rev = v4 + 1 /\ v4' = v4 + 1)
    BY <1>1, <1>2, <1>3, <2>1
  <2>4. v4' \in 0..FleetEdits /\ v4 <= v4' /\ v1 <= v1'
    BY <1>1, <2>1
  <2> QED BY <1>1, <2>1, <2>2, <2>3, <2>4, GitHubMoves
<1>5. ASSUME NEW r \in v2, Fleet!Delete(r) PROVE FleetInv'
  <2>1. /\ v4 < FleetEdits /\ v4' = v4 + 1 /\ v2' = v2 \ {r}
        /\ UNCHANGED <<v1, v3, v5, v6, v7, v8, v9, v10, v11, v12>>
    BY <1>5 DEF Fleet!Delete, Fleet!World, Fleet!cache, Fleet!loop
  <2>2. Fleet!OneRowEach(v2') /\ v2' \subseteq v2
    BY <1>1, <2>1 DEF Fleet!OneRowEach
  <2>3. v4' \in 0..FleetEdits /\ v4 <= v4' /\ v1 <= v1'
    BY <1>1, <2>1
  <2> QED BY <1>1, <2>1, <2>2, <2>3, GitHubMoves
<1>6. ASSUME NEW i \in Issues, Fleet!Open(i) PROVE FleetInv'
  <2>1. /\ v4 < FleetEdits /\ v4' = v4 + 1 /\ v2' = v2 \cup {Fleet!Fresh(i)} /\ \A r \in v2 : r.number < i
        /\ UNCHANGED <<v1, v3, v5, v6, v7, v8, v9, v10, v11, v12>>
    BY <1>6 DEF Fleet!Open, Fleet!World, Fleet!cache, Fleet!loop
  <2>2. \A r \in v2 : r.number # i
    <3>1. i \in Nat
      BY DEF FleetAssumption
    <3> QED BY <2>1, <3>1
  <2>3. Fleet!OneRowEach(v2')
    BY <1>1, <1>2, <2>1, <2>2 DEF Fleet!OneRowEach
  <2>4. v2' \subseteq Fleet!Row /\ \A q \in v2' : q \in v2 \/ (q.updated = v1 /\ q.rev = v4 + 1 /\ v4' = v4 + 1)
    BY <1>1, <1>2, <2>1
  <2>5. v4' \in 0..FleetEdits /\ v4 <= v4' /\ v1 <= v1'
    BY <1>1, <2>1
  <2> QED BY <1>1, <2>1, <2>3, <2>4, <2>5, GitHubMoves
<1>7. ASSUME NEW c \in Commits, Fleet!Push(c) PROVE FleetInv'
  <2>1. v3' = v3 \cup {c} /\ UNCHANGED <<v1, v2, v4, v5, v6, v7, v8, v9, v10, v11, v12>>
    BY <1>7 DEF Fleet!Push, Fleet!World, Fleet!cache, Fleet!loop
  <2>2. v4 <= v4' /\ v1 <= v1' /\ Fleet!OneRowEach(v2')
    BY <1>1, <2>1
  <2> QED BY <1>1, <2>1, <2>2, GitHubMoves
<1>8. ASSUME Fleet!Tick PROVE FleetInv'
  <2>1. v1 < MaxTime /\ v1' = v1 + 1 /\ UNCHANGED <<v2, v3, v4, v5, v6, v7, v8, v9, v10, v11, v12>>
    BY <1>8 DEF Fleet!Tick, Fleet!World, Fleet!cache, Fleet!loop
  <2>2. v1' \in Fleet!Times /\ v1 <= v1' /\ v4 <= v4' /\ Fleet!OneRowEach(v2')
    BY <1>1, <2>1 DEF Fleet!Times
  <2> QED BY <1>1, <2>1, <2>2, GitHubMoves
<1> QED BY <1>4, <1>5, <1>6, <1>7, <1>8

\* FleetCollector counts as everybody does.
LEMMA FleetCounts ==
  ASSUME NEW S
  PROVE  (Fleet!IsFiniteSet(S) <=> IsFiniteSet(S)) /\ Fleet!Cardinality(S) = Cardinality(S)
<1>1. Fleet!IsFiniteSet(S) <=> IsFiniteSet(S)
  BY DEF Fleet!IsFiniteSet, IsFiniteSet
<1>2. Fleet!Cardinality(S) = Cardinality(S)
  BY DEF Fleet!Cardinality, Cardinality
<1> QED BY <1>1, <1>2

\* A list that fits one page is on it, and the pages after it are empty.
LEMMA PageIs ==
  ASSUME FleetAssumption, Fleet!FitsOnePage, v2 \subseteq Fleet!Row, NEW since, NEW n \in Nat \ {0}
  PROVE  Fleet!Page(since, n) = IF n = 1 THEN Fleet!Listed(since) ELSE {}
<1>1. PageSize \in Nat /\ PageSize > 0 /\ IsFiniteSet(Issues) /\ Cardinality(Issues) \in Nat /\ Cardinality(Issues) <= PageSize
  <2>1. PageSize \in Nat /\ PageSize > 0
    BY DEF FleetAssumption
  <2>2. IsFiniteSet(Issues) /\ Cardinality(Issues) <= PageSize
    BY FleetCounts DEF Fleet!FitsOnePage
  <2> QED BY <2>1, <2>2, FS_CardinalityType
<1>2. ASSUME NEW r \in Fleet!Listed(since)
      PROVE  Cardinality(Fleet!Before(r, since)) \in 0..(PageSize - 1)
  <2>1. r.number \in Issues
    BY RowIs DEF Fleet!Listed
  <2>2. ASSUME NEW s \in Fleet!Listed(since), s.number > r.number PROVE s.number \in Issues \ {r.number}
    <3>1. s.number \in Issues /\ s.number \in Nat /\ r.number \in Nat
      BY RowIs DEF Fleet!Listed
    <3> QED BY <2>2, <3>1
  <2>3. Fleet!Before(r, since) \subseteq Issues \ {r.number}
    BY <2>2 DEF Fleet!Before
  <2>4. IsFiniteSet(Issues \ {r.number}) /\ Cardinality(Issues \ {r.number}) = Cardinality(Issues) - 1
    BY <1>1, <2>1, FS_RemoveElement
  <2>5. /\ IsFiniteSet(Fleet!Before(r, since))
        /\ Cardinality(Fleet!Before(r, since)) <= Cardinality(Issues) - 1
    BY <2>3, <2>4, FS_Subset
  <2>6. Cardinality(Fleet!Before(r, since)) \in Nat
    BY <2>5, FS_CardinalityType
  <2> QED BY <1>1, <2>5, <2>6
<1>3. CASE n = 1
  <2>1. (n - 1) * PageSize = 0 /\ n * PageSize - 1 = PageSize - 1
    BY <1>1, <1>3
  <2>2. \A r \in Fleet!Listed(since) :
           Fleet!Cardinality(Fleet!Before(r, since)) \in ((n - 1) * PageSize)..(n * PageSize - 1)
    BY <1>2, <2>1, FleetCounts
  <2> QED BY <1>3, <2>2 DEF Fleet!Page
<1>4. CASE n # 1
  <2>1. PICK k \in Nat : n = k + 2
    <3>1. n - 2 \in Nat /\ n = (n - 2) + 2
      BY <1>4
    <3> QED BY <3>1
  <2>2. k * PageSize \in Nat /\ n * PageSize - 1 \in Int /\ (n - 1) * PageSize = k * PageSize + PageSize
    BY <1>1, <2>1
  <2>3. ~(\E m \in 0..(PageSize - 1) : m \in ((n - 1) * PageSize)..(n * PageSize - 1))
    BY <1>1, <2>2
  <2>4. \A r \in Fleet!Listed(since) :
           Fleet!Cardinality(Fleet!Before(r, since)) \notin ((n - 1) * PageSize)..(n * PageSize - 1)
    BY <1>2, <2>3, FleetCounts
  <2> QED BY <1>4, <2>4 DEF Fleet!Page
<1> QED BY <1>3, <1>4

\* Without items the cached rows stay as they are.
LEMMA MergedWithNone ==
  ASSUME NEW rows PROVE Fleet!Merged(rows, {}) = rows
BY DEF Fleet!Merged

\* Whatever was listed since the newest cached row, put over the cached rows,
\* has all of GitHub's.
LEMMA MergedIs ==
  ASSUME FleetAssumption, NEW rows, NEW now, NEW gh \in SUBSET Fleet!Row, Fits(rows, now, gh), Fleet!OneRowEach(gh),
         \A r \in gh : r.updated <= now,
         NEW items, items = {r \in gh : r.updated >= Fleet!Newest(Fleet!Updates(rows))}
  PROVE  /\ Fits(Fleet!Merged(rows, items), now, gh)
         /\ gh \subseteq Fleet!Merged(rows, items) /\ items \subseteq Fleet!Merged(rows, items)
<1> DEFINE merged == Fleet!Merged(rows, items)
           n == Fleet!Newest(Fleet!Updates(rows))
<1>1. /\ rows \subseteq Fleet!Row /\ Fleet!OneRowEach(rows) /\ n \in Nat
      /\ \A r \in gh : r.updated < n => r \in rows
      /\ \A r \in rows : r.updated <= now
  BY UpdatesAre DEF Fits
<1>2. \A i, j \in items : i.number = j.number => i = j
  BY DEF Fleet!OneRowEach
<1>3. \A i \in items : \A j \in items : j.number = i.number => j.rev <= i.rev
  <2> SUFFICES ASSUME NEW i \in items, NEW j \in items, j.number = i.number PROVE j.rev <= i.rev
    OBVIOUS
  <2>1. j = i /\ i.rev \in Nat
    BY <1>2, RowIs
  <2> QED BY <2>1
<1>4. merged = {r \in rows : \A i \in items : i.number # r.number} \cup items
  BY <1>3 DEF Fleet!Merged
<1> HIDE DEF merged
<1>5. gh \subseteq merged
  <2> SUFFICES ASSUME NEW r \in gh, r \notin items PROVE r \in merged
    BY <1>4
  <2>1. r.updated \in Nat /\ r.updated < n
    BY <1>1, RowIs
  <2>2. r \in rows
    BY <1>1, <2>1
  <2>3. \A i \in items : i.number # r.number
    BY DEF Fleet!OneRowEach
  <2> QED BY <1>4, <2>2, <2>3
<1>6. merged \subseteq Fleet!Row /\ (\A r \in merged : r.updated <= now)
  BY <1>1, <1>4
<1>7. Fleet!OneRowEach(merged)
  BY <1>1, <1>2, <1>4 DEF Fleet!OneRowEach
<1> QED BY <1>4, <1>5, <1>6, <1>7 DEF Fits, merged

\* GitHub's own rows fit.
LEMMA AllFit ==
  ASSUME NEW now, NEW gh, gh \subseteq Fleet!Row, Fleet!OneRowEach(gh), \A r \in gh : r.updated <= now
  PROVE  Fits(gh, now, gh)
BY DEF Fits

LEMMA NoneFit ==
  ASSUME FleetAssumption, NEW now, NEW gh, gh \subseteq Fleet!Row
  PROVE  Fits({}, now, gh) /\ Fleet!Newest(Fleet!Updates({})) = 0
<1>1. Fleet!Updates({}) = {}
  BY DEF Fleet!Updates
<1>2. Fleet!Newest({}) = 0
  BY NewestIs
<1>3. \A r \in gh : r.updated \in Nat
  BY RowIs
<1> QED BY <1>1, <1>2, <1>3 DEF Fits, Fleet!OneRowEach

LEMMA BeginKeeps ==
  ASSUME FleetAssumption, FleetInv, NEW due \in BOOLEAN, Fleet!Begin(due)
  PROVE  FleetInv'
<1> DEFINE full == Fleet!Full(v5, due)
           new == [full |-> full, since |-> IF full THEN 0 ELSE v5.since, page |-> 1, items |-> {}, first |-> Nothing,
                   start |-> v2, branch |-> v3, done |-> FALSE]
<1>1. /\ v7' = new /\ v11' = "read" /\ v10' = v8 /\ v11 = "pass"
      /\ UNCHANGED <<v1, v2, v3, v4, v5, v6, v8, v9, v12>>
  BY DEF Fleet!Begin, Fleet!world
<1>2. FleetTypes /\ MaxTime \in Nat
  BY DEF FleetInv, FleetAssumption
<1>3. full \in BOOLEAN /\ (~full => v5 # Nothing /\ v5.since \in Fleet!Times)
  BY <1>2, Zenon DEF Fleet!Full, FleetTypes, EntryTyped, Fleet!Entry
<1> HIDE DEF full
<1>4. new \in Fleet!Reading
  BY <1>2, <1>3 DEF Fleet!Reading, FleetTypes, Fleet!Times
<1>5. /\ new.full = full /\ (full => new.since = 0) /\ (~full => new.since = v5.since) /\ new.page = 1
      /\ new.items = {} /\ new.start = v2 /\ new.done = FALSE
  OBVIOUS
<1> HIDE DEF new
<1>6. new # Nothing
  BY <1>4 DEF FleetAssumption
<1>7. FleetTypes'
  BY <1>1, <1>2, <1>3, <1>4, <1>5, <1>6 DEF FleetTypes, EntryTyped, ReadingTyped
<1>8. ASSUME Fleet!FitsOnePage PROVE FleetStory'
  <2>1. FleetStory
    BY <1>8 DEF FleetInv
  <2>2. ReadingFits(new, v5, v1, v2, v4)
    BY <1>2, <1>5 DEF ReadingFits, FleetTypes
  <2> QED BY <1>1, <2>1, <2>2 DEF FleetStory
<1> QED BY <1>7, <1>8 DEF FleetInv

LEMMA ReadPageKeeps ==
  ASSUME FleetAssumption, FleetInv, Fleet!ReadPage
  PROVE  FleetInv'
<1> DEFINE payload == Fleet!Page(v7.since, v7.page)
           first == IF v7.page = 1 THEN payload ELSE v7.first
           unchanged == v7.page = 1 /\ ~v7.full /\ Fleet!Earned(v5, v7.since) /\ v5.etag = payload
           items == IF unchanged THEN v7.items ELSE v7.items \cup payload
           done == unchanged \/ Fleet!Cardinality(payload) < PageSize
           new == [full |-> v7.full, since |-> v7.since, page |-> v7.page + 1, items |-> items, first |-> first,
                   start |-> v7.start, branch |-> v7.branch, done |-> done]
<1>1. FleetTypes /\ v11 = "read" /\ v7 # Nothing
  BY DEF FleetInv, FleetTypes, Fleet!ReadPage
<1>2. v7 \in Fleet!Reading /\ ReadingTyped(v7, v5) /\ v2 \subseteq Fleet!Row /\ payload \subseteq v2
  BY <1>1 DEF FleetTypes, ReadingTyped, Fleet!Page, Fleet!Listed
<1>3. v7' = new
  <2>1. v7' = [v7 EXCEPT !.first = first, !.page = @ + 1, !.items = IF unchanged THEN @ ELSE @ \cup payload, !.done = done]
    BY Zenon DEF Fleet!ReadPage
  <2> HIDE DEF payload, first, unchanged, done
  <2> QED BY <1>2, <2>1 DEF Fleet!Reading
<1>4. UNCHANGED <<v1, v2, v3, v4, v5, v6, v8, v9, v10, v11, v12>>
  BY DEF Fleet!ReadPage, Fleet!world, Fleet!loop
<1>5. first \in {Nothing} \cup SUBSET Fleet!Row /\ items \subseteq Fleet!Row /\ done \in BOOLEAN
  BY <1>2 DEF Fleet!Reading
<1>6. /\ new.full = v7.full /\ new.since = v7.since /\ new.page = v7.page + 1 /\ new.items = items /\ new.first = first
      /\ new.start = v7.start
  OBVIOUS
<1>7. new \in Fleet!Reading
  <2> HIDE DEF first, items, done
  <2> QED BY <1>2, <1>5 DEF Fleet!Reading
<1> HIDE DEF new
<1>8. new # Nothing
  BY <1>7 DEF FleetAssumption
<1>9. FleetTypes'
  BY <1>1, <1>2, <1>3, <1>4, <1>6, <1>7, <1>8 DEF FleetTypes, EntryTyped, ReadingTyped
<1>10. ASSUME Fleet!FitsOnePage PROVE FleetStory'
  <2>1. FleetStory /\ ReadingFits(v7, v5, v1, v2, v4) /\ v7.page \in Nat \ {0} /\ v7.full \in BOOLEAN
    BY <1>1, <1>2, <1>10 DEF FleetInv, FleetStory, Fleet!Reading
  <2>2. payload = IF v7.page = 1 THEN Fleet!Listed(v7.since) ELSE {}
    BY <1>2, <1>10, <2>1, PageIs
  <2>3. \A r \in v2 : r.updated <= v1 /\ r.updated \in Nat
    BY <1>1, <1>2, RowIs DEF FleetTypes
  <2>4. new.page > 1 /\ new.page # 1
    BY <1>6, <2>1
  <2>5. /\ Fits(Got(new, v5), v1, v2) /\ v2 \cap v7.start \subseteq Got(new, v5)
        /\ ~v7.full => first \subseteq Got(new, v5)
    <3>1. CASE v7.page # 1
      <4>1. items = v7.items /\ first = v7.first
        BY <2>2, <3>1
      <4>2. new.full = v7.full /\ new.items = v7.items
        BY <1>6, <4>1
      <4>3. Got(new, v5) = Got(v7, v5)
        BY <4>2 DEF Got
      <4>4. v7.page > 1
        BY <2>1, <3>1
      <4> HIDE DEF first
      <4> QED BY <2>1, <4>1, <4>3, <4>4 DEF ReadingFits
    <3>2. CASE v7.page = 1 /\ v7.full
      <4>1. payload = v2
        BY <1>2, <2>2, <2>3, <3>2 DEF Fleet!Listed, ReadingTyped
      <4>2. items = v2
        BY <2>1, <3>2, <4>1 DEF ReadingFits
      <4>3. Got(new, v5) = v2
        BY <1>6, <3>2, <4>2 DEF Got
      <4> QED BY <1>1, <1>2, <2>3, <3>2, <4>3, AllFit DEF FleetTypes
    <3>3. ASSUME v7.page = 1, ~v7.full
          PROVE  /\ Fits(Got(new, v5), v1, v2) /\ v2 \subseteq Got(new, v5)
                 /\ first \subseteq Got(new, v5)
      <4> DEFINE listed == {r \in v2 : r.updated >= Fleet!Newest(Fleet!Updates(v5.issues))}
      <4>1. /\ v5 # Nothing /\ EntryTyped(v5) /\ EntryFits(v5, v1, v2) /\ v7.since = v5.since
        BY <1>1, <1>2, <2>1, <3>3 DEF FleetTypes, FleetStory, ReadingTyped
      <4>2. payload = listed /\ first = listed /\ v7.items = {}
        BY <2>1, <2>2, <3>3, <4>1 DEF Fleet!Listed, EntryTyped, ReadingFits
      <4> HIDE DEF listed
      <4>3. Got(new, v5) = Fleet!Merged(v5.issues, items)
        BY <1>6, <3>3 DEF Got
      <4>4. /\ Fits(Fleet!Merged(v5.issues, listed), v1, v2)
            /\ v2 \subseteq Fleet!Merged(v5.issues, listed) /\ listed \subseteq Fleet!Merged(v5.issues, listed)
        BY <1>1, <1>2, <2>3, <4>1, MergedIs DEF EntryFits, FleetTypes, listed
      <4>5. CASE ~unchanged
        <5>1. items = listed
          BY <4>2, <4>5
        <5> QED BY <4>2, <4>3, <4>4, <5>1
      <4>6. CASE unchanged
        <5>1. items = {} /\ Got(new, v5) = v5.issues
          BY <4>2, <4>3, <4>6, MergedWithNone
        <5>2. listed \subseteq v5.issues
          BY <4>1, <4>2, <4>6 DEF Fleet!Earned, EntryFits
        <5>3. v2 \subseteq v5.issues
          <6> SUFFICES ASSUME NEW r \in v2 PROVE r \in v5.issues
            OBVIOUS
          <6>1. Fleet!Newest(Fleet!Updates(v5.issues)) \in Nat /\ r.updated \in Nat
            BY <2>3, <4>1, UpdatesAre DEF EntryFits, Fits
          <6>2. r.updated < Fleet!Newest(Fleet!Updates(v5.issues)) => r \in v5.issues
            BY <4>1 DEF EntryFits, Fits
          <6> QED BY <5>2, <6>1, <6>2 DEF listed
        <5> QED BY <4>1, <4>2, <5>1, <5>2, <5>3 DEF EntryFits
      <4> QED BY <4>5, <4>6
    <3> QED BY <2>1, <3>1, <3>2, <3>3
  <2>6. ReadingFits(new, v5, v1, v2, v4)
    <3> HIDE DEF first
    <3> QED BY <1>6, <2>1, <2>4, <2>5 DEF ReadingFits
  <2> QED BY <1>3, <1>4, <2>1, <2>6 DEF FleetStory
<1> QED BY <1>9, <1>10 DEF FleetInv

\* What a pass leaves when it ends.
LEMMA SwapIs ==
  ASSUME FleetAssumption, FleetInv, Fleet!Swap
  PROVE  /\ v5' # Nothing /\ EntryTyped(v5') /\ v5'.issues = Got(v7, v5)
         /\ v5'.full = v7.full /\ (~v7.full => v5'.etag = v7.first)
         /\ v7 # Nothing /\ v7 \in Fleet!Reading /\ v7.done /\ v7' = Nothing /\ v11' = "swapped"
         /\ UNCHANGED <<v1, v2, v3, v4, v6, v8, v9, v10, v12>>
<1> DEFINE issues == Got(v7, v5)
           commits == IF v5 = Nothing THEN {} ELSE v5.commits
           new == [issues |-> issues, commits |-> commits \cup Fleet!CommitsFrom(commits),
                   since |-> Fleet!Cursor(issues), full |-> v7.full, error |-> FALSE,
                   etag |-> IF v7.full THEN Nothing ELSE v7.first, url |-> v7.since]
<1>1. FleetTypes /\ v11 = "read" /\ v7 # Nothing /\ v7.done
  BY DEF FleetInv, FleetTypes, Fleet!Swap
<1>2. v7 \in Fleet!Reading /\ ReadingTyped(v7, v5)
  BY <1>1 DEF FleetTypes, ReadingTyped
<1>3. v5' = new /\ v7' = Nothing /\ v11' = "swapped" /\ UNCHANGED <<v1, v2, v3, v4, v6, v8, v9, v10, v12>>
  BY Zenon DEF Fleet!Swap, Got, Fleet!world
<1>4. issues \subseteq Fleet!Row
  BY <1>1, <1>2 DEF Got, Fleet!Merged, Fleet!Reading, ReadingTyped, FleetTypes, EntryTyped, Fleet!Entry
<1>5. commits \subseteq Commits /\ Fleet!CommitsFrom(commits) \subseteq Commits
  BY <1>1 DEF FleetTypes, EntryTyped, Fleet!Entry, Fleet!CommitsFrom
<1> HIDE DEF issues, commits
<1>6. Fleet!Cursor(issues) = Fleet!Newest(Fleet!Updates(issues)) /\ Fleet!Cursor(issues) \in Fleet!Times
  BY <1>4, UpdatesAre DEF Fleet!Cursor
<1>7. new \in Fleet!Entry
  BY <1>2, <1>4, <1>5, <1>6 DEF Fleet!Entry, Fleet!Reading
<1>8. new.issues = issues /\ new.since = Fleet!Cursor(issues) /\ new.full = v7.full /\ (~v7.full => new.etag = v7.first)
  OBVIOUS
<1> HIDE DEF new
<1>9. new # Nothing
  BY <1>7 DEF FleetAssumption
<1> QED BY <1>1, <1>2, <1>3, <1>6, <1>7, <1>8, <1>9 DEF EntryTyped, issues

\* With its list on one page, that has every issue that was not touched.
LEMMA SwapSees ==
  ASSUME FleetAssumption, FleetInv, Fleet!Swap, Fleet!FitsOnePage
  PROVE  EntryFits(v5', v1, v2) /\ v2 \cap v7.start \subseteq v5'.issues
<1>1. v7.page > 1 /\ ReadingFits(v7, v5, v1, v2, v4)
  <2>1. ReadingFits(v7, v5, v1, v2, v4) /\ v7.page \in Nat \ {0} /\ v7.done
    BY SwapIs DEF FleetInv, FleetStory, Fleet!Reading
  <2>2. v7.page # 1
    BY <2>1 DEF ReadingFits
  <2> QED BY <2>1, <2>2
<1> QED BY <1>1, SwapIs DEF ReadingFits, EntryFits

LEMMA SwapKeeps ==
  ASSUME FleetAssumption, FleetInv, Fleet!Swap
  PROVE  FleetInv'
<1>1. FleetTypes'
  BY SwapIs DEF FleetInv, FleetTypes, EntryTyped
<1>2. ASSUME Fleet!FitsOnePage PROVE FleetStory'
  BY <1>2, SwapIs, SwapSees DEF FleetInv, FleetStory
<1> QED BY <1>1, <1>2 DEF FleetInv

LEMMA ReadFailsKeeps ==
  ASSUME FleetAssumption, FleetInv, Fleet!ReadFails
  PROVE  FleetInv' /\ v5'.error = TRUE
<1> DEFINE fresh == [issues |-> {}, commits |-> {}, since |-> 0, full |-> TRUE, error |-> TRUE, etag |-> Nothing, url |-> 0]
           failed == [v5 EXCEPT !.error = TRUE]
<1>1. /\ v5' = (IF v5 = Nothing THEN fresh ELSE failed) /\ v7' = Nothing /\ v11' = "swapped"
      /\ v12 < FleetTroubles /\ v12' = v12 + 1
      /\ UNCHANGED <<v1, v2, v3, v4, v6, v8, v9, v10>>
  BY Zenon DEF Fleet!ReadFails, Fleet!world
<1>2. FleetTypes /\ v2 \subseteq Fleet!Row /\ MaxTime \in Nat
  BY DEF FleetInv, FleetTypes, FleetAssumption
<1>3. fresh \in Fleet!Entry /\ fresh.issues = {} /\ fresh.since = 0 /\ fresh.full /\ fresh.error = TRUE
  BY <1>2 DEF Fleet!Entry, Fleet!Times
<1>4. Fits({}, v1, v2) /\ Fleet!Newest(Fleet!Updates({})) = 0
  BY <1>2, NoneFit
<1>5. v5 # Nothing =>
        /\ failed \in Fleet!Entry /\ failed.issues = v5.issues /\ failed.since = v5.since
        /\ failed.full = v5.full /\ failed.etag = v5.etag /\ failed.error = TRUE
  BY <1>2 DEF FleetTypes, EntryTyped, Fleet!Entry
<1> HIDE DEF fresh, failed
<1>6. v5' \in Fleet!Entry /\ v5' # Nothing /\ EntryTyped(v5') /\ v5'.error = TRUE
  BY <1>1, <1>2, <1>3, <1>4, <1>5 DEF FleetTypes, EntryTyped, FleetAssumption
<1>7. v12' \in 0..FleetTroubles
  BY <1>1, <1>2 DEF FleetTypes, FleetAssumption
<1>8. FleetTypes'
  BY <1>1, <1>2, <1>6, <1>7 DEF FleetTypes, EntryTyped
<1>9. ASSUME Fleet!FitsOnePage PROVE FleetStory'
  BY <1>1, <1>3, <1>4, <1>5, <1>9 DEF FleetInv, FleetStory, EntryFits
<1> QED BY <1>6, <1>8, <1>9 DEF FleetInv

LEMMA LoopKeeps ==
  ASSUME FleetAssumption, FleetInv,
         \/ Fleet!Persist \/ Fleet!PersistFails \/ Fleet!PassEnds \/ Fleet!Wake \/ Fleet!Interval
         \/ Fleet!Restart \/ Fleet!Register
  PROVE  FleetInv'
<1>1. /\ FleetTypes /\ v8 \in Nat /\ v12 \in Nat /\ MaxRegistry \in Nat /\ FleetTroubles \in Nat
      /\ (v11 = "read") = (v7 # Nothing)
  BY DEF FleetInv, FleetTypes, FleetAssumption
<1>2. UNCHANGED <<v1, v2, v3, v4>>
  BY DEF Fleet!Persist, Fleet!PersistFails, Fleet!PassEnds, Fleet!Wake, Fleet!Interval, Fleet!Restart, Fleet!Register, Fleet!world
<1>3. v5' \in {v5, v6} /\ v6' \in {v5, v6} /\ (v7' = Nothing \/ (v7' = v7 /\ v5' = v5))
  BY DEF Fleet!Persist, Fleet!PersistFails, Fleet!PassEnds, Fleet!Wake, Fleet!Interval, Fleet!Restart, Fleet!Register, Fleet!cache
<1>4. v8' \in 0..MaxRegistry /\ v9' \in 0..v8' /\ v10' \in -1..v8' /\ v12' \in 0..FleetTroubles
  BY <1>1 DEF FleetTypes, Fleet!Persist, Fleet!PersistFails, Fleet!PassEnds, Fleet!Wake, Fleet!Interval, Fleet!Restart, Fleet!Register,
     Fleet!cache, Fleet!loop
<1>5. v11' \in {"pass", "read", "swapped", "done", "wait"} /\ (v11' = "read") = (v7' # Nothing)
  BY <1>1 DEF FleetTypes, Fleet!Persist, Fleet!PersistFails, Fleet!PassEnds, Fleet!Wake, Fleet!Interval, Fleet!Restart, Fleet!Register,
     Fleet!cache, Fleet!loop
<1>6. FleetTypes'
  BY <1>1, <1>2, <1>3, <1>4, <1>5 DEF FleetTypes, EntryTyped, ReadingTyped
<1>7. ASSUME Fleet!FitsOnePage PROVE FleetStory'
  BY <1>2, <1>3, <1>7 DEF FleetInv, FleetStory, EntryFits, ReadingFits
<1> QED BY <1>6, <1>7 DEF FleetInv

LEMMA FleetNext ==
  ASSUME FleetAssumption, FleetInv, Fleet!Next
  PROVE  FleetInv'
<1>1. CASE \E due \in BOOLEAN : Fleet!Begin(due)
  BY <1>1, BeginKeeps
<1>2. CASE Fleet!ReadPage \/ Fleet!Swap \/ Fleet!ReadFails
  BY <1>2, ReadPageKeeps, SwapKeeps, ReadFailsKeeps
<1>3. CASE \/ Fleet!Persist \/ Fleet!PersistFails \/ Fleet!PassEnds \/ Fleet!Wake \/ Fleet!Interval
           \/ Fleet!Restart \/ Fleet!Register
  BY <1>3, LoopKeeps
<1>4. CASE \/ \E r \in v2 : Fleet!Edit(r) \/ Fleet!Delete(r)
           \/ \E i \in Issues : Fleet!Open(i)
           \/ \E c \in Commits : Fleet!Push(c)
           \/ Fleet!Tick
  BY <1>4, GitHubNext
<1> QED BY <1>1, <1>2, <1>3, <1>4 DEF Fleet!Next, Fleet!Pass

LEMMA FleetStutter ==
  ASSUME FleetInv, UNCHANGED Shared
  PROVE  FleetInv'
<1>1. UNCHANGED <<v1, v2, v3, v4, v5, v6, v7, v8, v9, v10, v11, v12>>
  BY DEF Shared
<1> QED BY <1>1 DEF FleetInv, FleetTypes, FleetStory, EntryTyped, EntryFits, ReadingTyped, ReadingFits, Got, Fits

\* Only the end of a pass goes from reading to a swapped cache without an error.
LEMMA PassesSee ==
  ASSUME FleetAssumption, FleetInv, Fleet!FitsOnePage, Fleet!Next
  PROVE  Fleet!UpdatesSeen
<1> SUFFICES ASSUME v11 = "read", v11' = "swapped", ~v5'.error
             PROVE  v2 \cap v7.start \subseteq v5'.issues
  BY DEF Fleet!UpdatesSeen
<1>1. ~(\E due \in BOOLEAN : Fleet!Begin(due)) /\ ~Fleet!Persist /\ ~Fleet!PersistFails /\ ~Fleet!PassEnds
      /\ ~Fleet!Wake /\ ~Fleet!Interval
  BY DEF Fleet!Begin, Fleet!Persist, Fleet!PersistFails, Fleet!PassEnds, Fleet!Wake, Fleet!Interval
<1>2. ~Fleet!ReadPage /\ ~Fleet!Restart /\ ~Fleet!Register
  BY DEF Fleet!ReadPage, Fleet!loop, Fleet!Restart, Fleet!Register
<1>3. ~Fleet!ReadFails
  BY ReadFailsKeeps
<1>4. ~(\E r \in v2 : Fleet!Edit(r) \/ Fleet!Delete(r)) /\ ~(\E i \in Issues : Fleet!Open(i))
      /\ ~(\E c \in Commits : Fleet!Push(c)) /\ ~Fleet!Tick
  BY DEF Fleet!Edit, Fleet!Delete, Fleet!Open, Fleet!Push, Fleet!Tick, Fleet!World, Fleet!loop
<1>5. Fleet!Swap
  BY <1>1, <1>2, <1>3, <1>4 DEF Fleet!Next, Fleet!Pass
<1> QED BY <1>5, SwapSees

-----------------------------------------------------------------------------
(* The parts together: whichever of them runs, its invariant holds, and the  *)
(* steps of the others are none of its business.                             *)

\* Of the bounds of the part with its past, there are no troubles.
LEMMA PartsAssumptions ==
  CheckAssumption /\ BatteryAssumption /\ TicketsAssumption(MaxTroubles) /\ TicketsAssumption(0) /\ FleetAssumption
BY WorkersAssumption DEF CheckAssumption, BatteryAssumption, TicketsAssumption, FleetAssumption

LEMMA TicketsStutter ==
  ASSUME NEW f, NEW t, NEW m, Tickets(f, t, m)!TypeOK, ClaimsHeld, UNCHANGED Shared
  PROVE  Tickets(f, t, m)!TypeOK' /\ ClaimsHeld'
<1>1. UNCHANGED <<v1, v2, v3, v4, v5, v6, v7, v8, v9>>
  BY DEF Shared
<1> QED BY <1>1 DEF Tickets!TypeOK, ClaimsHeld, ClaimsAt, HoldsAt

PartsInv ==
  /\ part \in {"JobLease", "VerifyReuse", "Regression", "FleetCollector", "TicketLock", "Renewals"}
  /\ part = "JobLease" => Inv
  /\ part = "VerifyReuse" => CheckInv
  /\ part = "Regression" => BatteryInv
  /\ part = "FleetCollector" => FleetInv
  /\ part = "TicketLock" => Tickets({}, Troubled, MaxTroubles)!TypeOK /\ ClaimsHeld
  /\ part = "Renewals" => Tickets(Finished, {}, 0)!TypeOK /\ ClaimsHeld

LEMMA PartsInit == FirstState => PartsInv
BY PartsAssumptions, InitInv, ChecksInit, BatteryInit, FleetInit, TicketsStart DEF FirstState, PartsInv

LEMMA PartsStutter ==
  ASSUME PartsInv, UNCHANGED All
  PROVE  PartsInv'
<1>1. UNCHANGED <<jobs, part, Shared>>
  BY DEF All
<1> QED BY <1>1, PartsAssumptions, StutterInv, ChecksStutter, BatteryStutter, FleetStutter, TicketsStutter DEF PartsInv

LEMMA PartsNext ==
  ASSUME PartsInv, Step
  PROVE  PartsInv'
<1>1. CASE part = "JobLease" /\ Next /\ UNCHANGED <<part, Shared>>
  BY <1>1, NextGood, JobLeaseAssumption DEF PartsInv, Good
<1>2. CASE part = "VerifyReuse" /\ Checks!Next /\ UNCHANGED <<jobs, part>>
  BY <1>2, ChecksNext, PartsAssumptions DEF PartsInv
<1>3. CASE part = "Regression" /\ Battery!Next /\ UNCHANGED <<jobs, part, v8, v9, v10, v11, v12, v13>>
  BY <1>3, BatteryNext, PartsAssumptions DEF PartsInv
<1>4. CASE part = "FleetCollector" /\ Fleet!Next /\ UNCHANGED <<jobs, part, v13>>
  BY <1>4, FleetNext, PartsAssumptions DEF PartsInv
<1>5. CASE part = "TicketLock" /\ Tickets({}, Troubled, MaxTroubles)!Next /\ UNCHANGED <<jobs, part, v10, v11, v12, v13>>
  BY <1>5, TicketsNext, PartsAssumptions DEF PartsInv
<1>6. CASE part = "Renewals" /\ Tickets(Finished, {}, 0)!Next /\ UNCHANGED <<jobs, part, v10, v11, v12, v13>>
  BY <1>6, TicketsNext, PartsAssumptions DEF PartsInv
<1> QED BY <1>1, <1>2, <1>3, <1>4, <1>5, <1>6 DEF Step

LEMMA PartsInvariance == FairParts => []PartsInv
<1>1. PartsInv /\ [Step]_All => PartsInv'
  BY PartsNext, PartsStutter
<1> QED BY PartsInit, <1>1, PTL DEF FairParts

\* However workers overlap, expire and are killed, for any number of them, of
\* jobs, criteria, shards and runs: a key names one job, granted no more often
\* than it allows; a binding's command is paid for once; a request completed
\* only if it ran whole on its own tree, unless that was changed and changed
\* back meanwhile; a ticket has one owner.  (Queue.claim,
\* run_criterion_evidence, cmd_regression_run, claim_tickets)
THEOREM WorkAlwaysDoneOnce == FairParts => []WorkIsDoneOnce
<1>1. Inv => GrantsBounded /\ KeysUnique
  BY DEF Inv, GrantsBounded, Bounded
<1>2. CheckInv => Checks!EachBindingRunsOnce
  BY RunsOnceIs DEF CheckInv
<1>3. BatteryInv => Battery!CompletedIsWhole
  BY BatteryCompletedIsWhole
<1>4. Tickets({}, Troubled, MaxTroubles)!TypeOK /\ ClaimsHeld => Tickets({}, Troubled, MaxTroubles)!OneOwner
  BY OneOwnerIs
<1>5. Tickets(Finished, {}, 0)!TypeOK /\ ClaimsHeld => Tickets(Finished, {}, 0)!OneOwner
  BY OneOwnerIs
<1>6. PartsInv => WorkIsDoneOnce
  BY <1>1, <1>2, <1>3, <1>4, <1>5 DEF PartsInv, WorkIsDoneOnce
<1> QED BY PartsInvariance, <1>6, PTL

\* The state of every part is well typed: the shards of a battery share its
\* tests out exactly, and the collector's cache names the newest of its rows and
\* has one for each issue while a list fits one page (compute_battery,
\* collect_project).
THEOREM PartsTypeCorrect == FairParts => []TypesOK
<1>1. Inv => TypeOK
  BY DEF Inv
<1>2. CheckInv => Checks!TypeOK
  BY ChecksTypeCorrect DEF CheckInv
<1>3. BatteryInv => Battery!TypeOK
  BY BatteryTypeCorrect, PartsAssumptions
<1>4. FleetInv => Fleet!TypeOK
  BY FleetTypeCorrect, PartsAssumptions
<1>5. PartsInv => TypesOK
  BY <1>1, <1>2, <1>3, <1>4 DEF PartsInv, TypesOK
<1> QED BY PartsInvariance, <1>5, PTL

\* While the issues of a project fit one page, a pass of the collector that ends
\* without an error leaves every issue that was not touched while it ran as
\* GitHub has it, however often a page was not sent again since its ETag was
\* known, reads failed, the file was not written or the server restarted.
\* (collect_project, _read_list, _etag_for, IssueCache.refresh)
THEOREM UpdatesAlwaysSeen ==
  ASSUME Fleet!FitsOnePage
  PROVE  FairParts => CollectorSeesUpdates
<1>1. ASSUME PartsInv, [Step]_All PROVE part = "FleetCollector" => Fleet!UpdatesSeen
  <2> SUFFICES ASSUME part = "FleetCollector" PROVE Fleet!UpdatesSeen
    OBVIOUS
  <2>1. CASE Fleet!Next
    BY <1>1, <2>1, PassesSee, PartsAssumptions DEF PartsInv
  <2>2. CASE UNCHANGED All
    <3>1. v11' = v11
      BY <2>2 DEF All, Shared
    <3> QED BY <3>1 DEF Fleet!UpdatesSeen
  <2> QED BY <1>1, <2>1, <2>2 DEF Step
<1>2. PartsInv /\ [Step]_All => [part = "FleetCollector" => Fleet!UpdatesSeen]_All
  BY <1>1
<1> QED BY PartsInvariance, <1>2, PTL DEF FairParts, CollectorSeesUpdates

\* What happens to the leases beside the other parts is what happens to them alone.
LEMMA LeasesAmongOthers == [Step]_All => [Next]_jobs
<1>1. UNCHANGED All => UNCHANGED jobs
  BY DEF All
<1>2. ASSUME Step PROVE Next \/ UNCHANGED jobs
  BY <1>2 DEF Step
<1> QED BY <1>1, <1>2

\* No step of any part gives a leased job to another worker before the lease has
\* run out, or takes back how a job ended.  (Queue.claim, heartbeat, complete)
THEOREM FencedAmongOthers == FairParts => Fenced
<1>1. FirstState => Init
  BY DEF FirstState
<1>2. FairParts => Spec
  BY <1>1, LeasesAmongOthers, PTL DEF FairParts, Spec
<1> QED BY <1>2, AlwaysFenced, PTL
=============================================================================

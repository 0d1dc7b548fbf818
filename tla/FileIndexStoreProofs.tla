-------------------------- MODULE FileIndexStoreProofs --------------------------
(***************************************************************************)
(* What the file index store guarantees a call that no other overlaps, for *)
(* any number of clients that do not take turns and may die in a call: it  *)
(* does what it says, whatever the others have left in the files before.   *)
(***************************************************************************)
EXTENDS FileIndexStore, TLAPS

-------------------------------------------------------------------------------
(* The invariant.                                                           *)

\* Every step keeps the types of the variables.
LEMMA TypeStep == TypeOK /\ [Next]_vars => TypeOK'
<1> SUFFICES ASSUME TypeOK, [Next]_vars PROVE TypeOK'
    OBVIOUS
<1>1. CASE UNCHANGED vars
    BY <1>1 DEF TypeOK, vars
<1>2. ASSUME NEW c \in Clients, Step(c) PROVE TypeOK'
    <2>1. CASE Begin(c)           BY <2>1 DEF TypeOK, Begin, Goto
    <2>2. CASE Get(c)             BY <2>2 DEF TypeOK, Get, Goto, Returns
    <2>3. CASE LookUp(c)          BY <2>3 DEF TypeOK, LookUp, Goto, Returns
    <2>4. CASE CheckExists(c)     BY <2>4 DEF TypeOK, CheckExists, Goto, Returns
    <2>5. CASE PutFails(c)        BY <2>5 DEF TypeOK, PutFails, Goto, Returns
    <2>6. CASE PutRemoves(c)      BY <2>6 DEF TypeOK, PutRemoves, Goto
    <2>7. CASE PutWrites(c)       BY <2>7 DEF TypeOK, PutWrites, Goto
    <2>8. CASE DeleteOld(c)       BY <2>8 DEF TypeOK, DeleteOld, Goto
    <2>9. CASE Move(c)            BY <2>9 DEF TypeOK, Move, Goto, Returns
    <2>10. CASE CheckDelete(c)    BY <2>10 DEF TypeOK, CheckDelete, Goto, Returns
    <2>11. CASE Remove(c)         BY <2>11 DEF TypeOK, Remove, Goto, Returns
    <2>12. CASE Return(c)         BY <2>12 DEF TypeOK, Return, Goto
    <2>13. CASE Crash(c)          BY <2>13 DEF TypeOK, Crash, Goto
    <2> QED
        BY <1>2, <2>1, <2>2, <2>3, <2>4, <2>5, <2>6, <2>7, <2>8, <2>9, <2>10, <2>11,
           <2>12, <2>13 DEF Step
<1> QED
    BY <1>1, <1>2 DEF Next

\* A client in a call that moves is the one alone, or no call is alone: whoever began
\* beside it took that away.
LEMMA OthersRest ==
    ASSUME AloneInv, NEW c \in Clients, Step(c), ~Begin(c), NEW d \in Clients, d = alone
    PROVE  c = d
<1>1. pc[c] # "idle"
    BY DEF Step, Get, LookUp, CheckExists, PutFails, PutRemoves, PutWrites, DeleteOld, Move,
           CheckDelete, Remove, Return, Crash
<1> QED
    BY <1>1 DEF AloneInv

\* Alone with the files, a client finds them as it left them.
LEMMA AloneStep ==
    ASSUME TypeOK, AloneInv, [Next]_vars
    PROVE  AloneInv'
<1>1. CASE UNCHANGED vars
    BY <1>1 DEF AloneInv, vars
<1>2. ASSUME NEW c \in Clients, Begin(c) PROVE AloneInv'
    <2>1. ASSUME NEW d \in Clients, d = alone'
          PROVE  d = c /\ \A e \in Clients : pc[e] = "idle"
        BY <1>2, <2>1, IndexAssumption DEF Begin
    <2>2. pc' = [pc EXCEPT ![c] = "begun"]
        BY <1>2 DEF Begin, Goto
    <2> QED
        BY <2>1, <2>2 DEF AloneInv, TypeOK
<1>3. ASSUME NEW c \in Clients, Step(c), ~Begin(c), c = alone PROVE AloneInv'
    <2>0. \A d \in Clients \ {c} : pc[d] = "idle"
        BY <1>3 DEF AloneInv
    <2> USE <1>3, <2>0 DEF AloneInv, TypeOK, Goto, Returns
    <2>1. CASE Get(c)           BY <2>1 DEF Get
    <2>2. CASE LookUp(c)
        <3>1. CASE file = None
            <4>1. replacing' = [replacing EXCEPT ![c] = FALSE]
                BY <2>2, <3>1 DEF LookUp
            <4> QED
                BY <2>2, <3>1, <4>1 DEF LookUp
        <3>2. CASE file # None
            <4>1. replacing' = [replacing EXCEPT ![c] = TRUE]
                BY <2>2, <3>2 DEF LookUp
            <4> QED
                BY <2>2, <3>2, <4>1 DEF LookUp
        <3> QED
            BY <3>1, <3>2
    <2>3. CASE CheckExists(c)   BY <2>3 DEF CheckExists
    <2>4. CASE PutFails(c)      BY <2>4 DEF PutFails
    <2>5. CASE PutRemoves(c)    BY <2>5 DEF PutRemoves
    <2>6. CASE PutWrites(c)     BY <2>6 DEF PutWrites
    <2>7. CASE DeleteOld(c)     BY <2>7 DEF DeleteOld
    <2>8. CASE Move(c)          BY <2>8 DEF Move
    <2>9. CASE CheckDelete(c)   BY <2>9 DEF CheckDelete
    <2>10. CASE Remove(c)       BY <2>10 DEF Remove
    <2>11. CASE Return(c)       BY <2>11 DEF Return
    <2>12. CASE Crash(c)        BY <2>12 DEF Crash
    <2> QED
        BY <1>3, <2>1, <2>2, <2>3, <2>4, <2>5, <2>6, <2>7, <2>8, <2>9, <2>10, <2>11, <2>12 DEF Step
<1>4. ASSUME NEW c \in Clients, Step(c), ~Begin(c), c # alone PROVE AloneInv'
    <2>1. alone' = alone
        BY <1>4 DEF Step, Get, LookUp, CheckExists, PutFails, PutRemoves, PutWrites, DeleteOld,
                    Move, CheckDelete, Remove, Return, Crash
    <2>2. \A d \in Clients : d # alone'
        BY <1>4, <2>1, OthersRest
    <2> QED
        BY <2>2 DEF AloneInv
<1> QED
    BY <1>1, <1>2, <1>3, <1>4 DEF Next

\* The inductive invariant: the types, and that a client whose call no other has
\* overlapped finds the files as it left them, with any clients, records and
\* operations, and a crash of anybody at any step.
THEOREM InvCorrect == Spec => []IInv
<1>1. Init => IInv
    BY IndexAssumption DEF Init, IInv, TypeOK, AloneInv
<1>2. IInv /\ [Next]_vars => IInv'
    BY TypeStep, AloneStep DEF IInv
<1> QED
    BY <1>1, <1>2, PTL DEF Spec

-------------------------------------------------------------------------------
(* The effect of a call.                                                    *)

\* A step that ends the call of the client that is alone gives the call the effect
\* that its result tells.
LEMMA EffectStep ==
    ASSUME IInv, [Next]_vars, NEW c \in Clients, c = alone, pc[c] # "return", pc'[c] = "return"
    PROVE  TakesEffect(c)
<1>0. TypeOK /\ AloneInv
    BY DEF IInv
<1>1. PICK d \in Clients : Step(d)
    BY DEF Next, vars
<1>2. ~Begin(d) /\ d = c
    <2>1. ~Begin(d)
        BY <1>0 DEF Begin, Goto, TypeOK
    <2> QED
        BY <1>0, <1>1, <2>1, OthersRest
<1>3. Step(c) /\ ~Begin(c)
    BY <1>1, <1>2
<1> HIDE DEF Step
<1> USE <1>0 DEF AloneInv, TypeOK, Goto, Returns, TakesEffect
<1>4. CASE Get(c)           BY <1>4 DEF Get
<1>5. CASE LookUp(c)        BY <1>5 DEF LookUp
<1>6. CASE CheckExists(c)   BY <1>6 DEF CheckExists
<1>7. CASE PutFails(c)      BY <1>7 DEF PutFails
<1>8. CASE PutRemoves(c)    BY <1>8 DEF PutRemoves
<1>9. CASE PutWrites(c)     BY <1>9 DEF PutWrites
<1>10. CASE DeleteOld(c)    BY <1>10 DEF DeleteOld
<1>11. CASE Move(c)         BY <1>11, IndexAssumption DEF Move
<1>12. CASE CheckDelete(c)  BY <1>12 DEF CheckDelete
<1>13. CASE Remove(c)       BY <1>13 DEF Remove
<1>14. CASE Return(c)       BY <1>14 DEF Return
<1>15. CASE Crash(c)        BY <1>15 DEF Crash
<1> QED
    BY <1>3, <1>4, <1>5, <1>6, <1>7, <1>8, <1>9,
       <1>10, <1>11, <1>12, <1>13, <1>14, <1>15 DEF Step

\* A call that no other overlaps does what it says, although the others neither take
\* turns nor end their calls: for any clients, records and operations, with a crash at
\* any step and any files that overlapping or interrupted calls have left.
THEOREM AloneCorrect == Spec => AloneTakesEffect
<1>1. ASSUME IInv, [Next]_vars
      PROVE  [\A c \in Clients : c = alone /\ pc[c] # "return" /\ pc'[c] = "return" =>
                  TakesEffect(c)]_vars
    BY <1>1, EffectStep
<1> QED
    BY <1>1, InvCorrect, PTL DEF Spec, AloneTakesEffect
===============================================================================

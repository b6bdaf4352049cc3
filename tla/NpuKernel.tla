----------------------------- MODULE NpuKernel -----------------------------
(***************************************************************************)
(* What a caller of the raw and of the cached template matmul is promised: *)
(* a call answers the product of the X it was given and of the weights     *)
(* last loaded into the slot it names, or it fails; nothing of an earlier  *)
(* call, of another slot or of another shape shows in it.  The promise is  *)
(* for programs that lie where they were captured (`placed').              *)
(***************************************************************************)

CONSTANTS Xs, Ws, NoW,
          SlotSets  \* the sets of slots a cache may have

VARIABLES weights,  \* weights[i]: what slot i holds; <<>> when nothing is open
          job,      \* the operands of the call in progress, <<>> when there is none
          answer,   \* what the last call returned
          placed
vars == <<weights, job, answer, placed>>

Failed == <<"failed">>
Idle == job = <<>>

Init == weights = <<>> /\ Idle /\ answer = <<>> /\ placed = TRUE

Open == /\ Idle
        /\ weights' \in {[i \in S |-> NoW] : S \in SlotSets}
        /\ placed' \in BOOLEAN
        /\ UNCHANGED <<job, answer>>

Load(i, w) == /\ Idle
              /\ weights' = [weights EXCEPT ![i] = w]
              /\ UNCHANGED <<job, answer, placed>>

Submit(i, x) == /\ Idle
                /\ job' = <<x, weights[i]>> /\ answer' = <<>>
                /\ UNCHANGED <<weights, placed>>

\* A matmul given both operands: one slot, whatever was open before.
MatMul(i, x, w) == /\ Idle
                   /\ job' = <<x, w>> /\ answer' = <<>>
                   /\ weights' = [s \in {i} |-> w]
                   /\ placed' \in BOOLEAN

\* The call returns.  What was open may be closed with it.
Finish == /\ ~Idle /\ job' = <<>>
          /\ placed => answer' \in {job, Failed}
          /\ \/ UNCHANGED <<weights, placed>>
             \/ weights' = <<>> /\ placed'

\* A call that fails before it submits anything, and a close.
Refuse == Idle /\ weights' = <<>> /\ answer' = Failed /\ placed' /\ UNCHANGED job
Close == Idle /\ weights' = <<>> /\ placed' /\ UNCHANGED <<job, answer>>

Next == \/ Open \/ Finish \/ Refuse \/ Close
        \/ \E i \in DOMAIN weights, w \in Ws : Load(i, w)
        \/ \E i \in DOMAIN weights, x \in Xs : Submit(i, x)
        \/ \E i \in UNION SlotSets, x \in Xs, w \in Ws : MatMul(i, x, w)

Spec == Init /\ [][Next]_vars
=============================================================================

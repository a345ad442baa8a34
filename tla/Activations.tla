------------------------------- MODULE Activations -------------------------------
(***************************************************************************)
(* What calls promise a function of the source program: an activation has  *)
(* variables of its own that nothing but its own steps and the result of a *)
(* call it made can change, it starts with the values its caller passed,   *)
(* and its return resumes exactly the call that made it.  There are no     *)
(* addresses, registers or frames.                                         *)
(***************************************************************************)
EXTENDS SequencesExt, Integers

CONSTANTS Outside,    \* where the first function returns to
          Site(_, _), \* a call in function f whose result goes to variable dst
          Value

VARIABLES arity,  \* the number of arguments of each function
          stack,  \* the activations, the running one last
          call,   \* the call being made: <<>>, or [fn, args, ret]
          result  \* the value on its way back: <<>>, or [to, value]
vars == <<arity, stack, call, result>>

Running == stack # <<>> /\ call = <<>> /\ result = <<>>
Top     == Last(stack)

Init == stack = <<>> /\ call = <<>> /\ result = <<>>

Boot ==
  /\ stack = <<>> /\ call = <<>> /\ result = <<>>
  /\ call' = [fn |-> 1, args |-> <<>>, ret |-> Outside]
  /\ UNCHANGED <<arity, stack, result>>

(* The running function calls another with values of its variables.        *)
(* (\E x \in {e} is LET x == e, evaluated once.)                           *)
Call ==
  /\ Running /\ call' # <<>>
  /\ \E top \in {Top} :
       /\ call'.fn \in DOMAIN arity
       /\ Len(call'.args) = arity[call'.fn]
       /\ \A j \in DOMAIN call'.args :
            \E i \in DOMAIN top.vals : call'.args[j] = top.vals[i]
       /\ \E dst \in {0} \cup DOMAIN top.vals : call'.ret = Site(top.fn, dst)
  /\ UNCHANGED <<arity, stack, result>>

(* A new activation: its first variables are the arguments, the rest any.  *)
Enter ==
  /\ call # <<>>
  /\ \E next \in {stack'} :
       /\ next # <<>> /\ Front(next) = stack
       /\ \E new \in {Last(next)} :
            /\ new.fn = call.fn /\ new.ret = call.ret
            /\ \A i \in DOMAIN call.args : new.vals[i] = call.args[i]
  /\ call' = <<>>
  /\ UNCHANGED <<arity, result>>

(* One variable of the running activation changes.                         *)
Write ==
  /\ Running
  /\ \E old \in {stack}, new \in {stack'}, v \in Value :
       \E i \in DOMAIN Last(old).vals :
         new = [old EXCEPT ![Len(old)].vals[i] = v]
  /\ UNCHANGED <<arity, call, result>>

(* The returned value is a variable's, or none that anyone may rely on.    *)
Return ==
  /\ Running /\ result' # <<>>
  /\ \E old \in {stack} :
       /\ stack' = Front(old)
       /\ result'.to = Last(old).ret
       /\ \/ \E f \in {0} \cup DOMAIN arity : result'.to = Site(f, 0)
          \/ \E i \in DOMAIN Last(old).vals : result'.value = Last(old).vals[i]
  /\ UNCHANGED <<arity, call>>

(* The call the value comes back to takes it, if it has a result.          *)
Resume ==
  /\ stack # <<>> /\ result # <<>>
  /\ \E old \in {stack} :
       \/ result.to = Site(Last(old).fn, 0) /\ UNCHANGED stack
       \/ \E i \in DOMAIN Last(old).vals :
            /\ result.to = Site(Last(old).fn, i)
            /\ stack' = [old EXCEPT ![Len(old)].vals[i] = result.value]
  /\ result' = <<>>
  /\ UNCHANGED <<arity, call>>

Next == Boot \/ Call \/ Enter \/ Write \/ Return \/ Resume

Spec == Init /\ [][Next]_vars
================================================================================

----------------------------- MODULE ServiceStore -----------------------------
(***************************************************************************)
(* What the container promises its callers: one object at most is built    *)
(* for a token, and every call that asks for the token is answered with    *)
(* the object the token has, whichever caller made it be built.  Objects   *)
(* of some tokens are supplied, and may be replaced, by the application.   *)
(* The container (Container.tla) implements this for tokens that are       *)
(* registered under their own class or as a factory.                       *)
(***************************************************************************)
EXTENDS Integers

CONSTANTS
  Token, Caller, Object,
  Supplied    \* the tokens whose object the application supplies

None == 0

VARIABLES
  store,    \* token -> its object, or None
  answer    \* caller -> the token it asked for and the object it was given

Unanswered == [token |-> "none", obj |-> None]

Init ==
  /\ store = [t \in Token |-> None]
  /\ answer = [c \in Caller |-> Unanswered]

Answer(c, t, o) ==
  /\ answer[c] = Unanswered
  /\ answer' = [answer EXCEPT ![c] = [token |-> t, obj |-> o]]

(* A caller is given the object the store already has.                     *)
Give(c, t) ==
  /\ store[t] # None
  /\ Answer(c, t, store[t])
  /\ UNCHANGED store

Fresh(o) == o \notin {store[u] : u \in Token} \cup {None}

(* An object no token has is built for a token without one, and given to   *)
(* the caller whose call built it.                                         *)
Build(c, t, o) ==
  /\ store[t] = None
  /\ Fresh(o)
  /\ store' = [store EXCEPT ![t] = o]
  /\ Answer(c, t, o)

(* The application gives the token another object.                         *)
Supply(t, o) ==
  /\ Fresh(o)
  /\ store' = [store EXCEPT ![t] = o]
  /\ UNCHANGED answer

Next ==
  \/ \E c \in Caller, t \in Token : Give(c, t)
  \/ \E c \in Caller, t \in Token, o \in Object : Build(c, t, o)
  \/ \E t \in Supplied, o \in Object : Supply(t, o)

Spec == Init /\ [][Next]_<<store, answer>>
=============================================================================

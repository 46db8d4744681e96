----------------------------- MODULE NameTable -----------------------------
(***************************************************************************)
(* What a directory promises: a table of objects, each under an alias of   *)
(* its own and most of them under a long name too.  A call that opens      *)
(* makes one object or finds the one that is there, a call that removes    *)
(* takes away the one it found, and nothing else changes.                  *)
(*                                                                         *)
(* safe is the table a power loss leaves: the table as it was at some      *)
(* moment since the last call that succeeded.  A removal that is cut short *)
(* may leave an object with its alias alone.                               *)
(***************************************************************************)
EXTENDS Integers

CONSTANTS
    Names, NoName,   \* the names callers use; no long name
    NeedsLong,       \* those that an alias cannot express
    Lossy,           \* those whose alias gets a number
    Short,           \* a name's alias, without its number
    Forms(_)         \* the aliases a name may get

VARIABLES table, safe, call, result

vars == <<table, safe, call, result>>

Object(long, alias, data) == [long |-> long, alias |-> alias, data |-> data]
Call(what, n, on) == [what |-> what, name |-> n, on |-> on]
NoAlias == <<>>
NoCall  == Call("none", NoName, NoAlias)

Known(o, n)    == o.long = n \/ (n \notin Lossy /\ o.alias = Short[n])

Init == table = {} /\ safe = {} /\ call = NoCall /\ result = "none"

Begin ==
    /\ call = NoCall
    /\ \E what \in {"open", "unlink"}, n \in Names : call' = Call(what, n, NoAlias)
    /\ result' = "none"
    /\ UNCHANGED <<table, safe>>

\* The object is looked for; a new one gets an alias nothing else has.
Choose ==
    /\ call # NoCall /\ call.on = NoAlias
    /\ \/ \E o \in table : Known(o, call.name) /\ call' = [call EXCEPT !.on = o.alias]
       \/ /\ call.what = "open"
          /\ \A o \in table : ~Known(o, call.name)
          /\ \E a \in Forms(call.name) :
                (\A o \in table : o.alias # a) /\ call' = [call EXCEPT !.on = a]
    /\ UNCHANGED <<table, safe, result>>

Chosen == {o \in table : o.alias = call.on}

LongOf(n)   == IF n \in NeedsLong THEN n ELSE NoName

Put ==
    /\ call.what = "open" /\ call.on # NoAlias
    /\ IF Chosen = {}
       THEN table' = table \cup {Object(LongOf(call.name), call.on, call.name)}
       ELSE table' = (table \ Chosen) \cup {[o EXCEPT !.data = call.name] : o \in Chosen}
    /\ UNCHANGED <<safe, call, result>>

Strip ==
    /\ call.what = "unlink"
    /\ table' = (table \ Chosen) \cup {[o EXCEPT !.long = NoName] : o \in Chosen}
    /\ UNCHANGED <<safe, call, result>>

Drop ==
    /\ call.what = "unlink"
    /\ table' = table \ Chosen
    /\ UNCHANGED <<safe, call, result>>

Done ==
    CASE call.what = "open"   -> \E o \in Chosen : Known(o, call.name) /\ o.data = call.name
      [] call.what = "unlink" -> call.on # NoAlias /\ \A o \in table : ~Known(o, call.name)

Succeed ==
    /\ call # NoCall
    /\ Done /\ safe = table
    /\ call' = NoCall /\ result' = "FR_OK"
    /\ UNCHANGED <<table, safe>>

Fail ==
    /\ call # NoCall
    /\ call' = NoCall /\ result' = "error"
    /\ UNCHANGED <<table, safe>>

Write == safe' = table /\ UNCHANGED <<table, call, result>>

PowerLoss == table' = safe /\ call' = NoCall /\ result' = "none" /\ UNCHANGED safe

Next == Begin \/ Choose \/ Put \/ Strip \/ Drop \/ Succeed \/ Fail \/ Write \/ PowerLoss
Spec == Init /\ [][Next]_vars
=============================================================================

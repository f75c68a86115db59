----------------------------- MODULE ObjectGraph -----------------------------
(* The memory of a program as tasks/c_advanced/gc/README.md lets it see it:  *)
(* pointers in variables and in objects, and no collector.  An object exists *)
(* for as long as the program can reach it; nothing ever takes it away or    *)
(* changes it behind the program's back.                                     *)
EXTENDS Reachability

CONSTANTS Var,      \* the program's pointers
          Address

VARIABLES stack,    \* the word in each variable
          objects   \* the words of every object that can be reached, by address

vars == <<stack, objects>>

Kept(variables, objs) ==
    [a \in Closure({variables[v] : v \in Var}, objs) |-> objs[a]]

Init == stack = [v \in Var |-> 0] /\ objects = [a \in {} |-> <<>>]

\* A new object of zeroed words, away from every object in reach.
Create(v, old, new) ==
    LET a == stack'[v]
    IN  /\ stack[v] = 0 /\ a \in Address
        /\ stack' = [stack EXCEPT ![v] = a]
        /\ DOMAIN new = DOMAIN old \cup {a}
        /\ Content(new[a]) \subseteq {0}
        /\ \A b \in DOMAIN old : /\ new[b] = old[b]
                                /\ ~Points(a, b, old[b]) /\ ~Points(b, a, new[a])

Drop(v, old, new) ==
    /\ stack[v] # 0
    /\ stack' = [stack EXCEPT ![v] = 0]
    /\ new = Kept(stack', old)

\* A word of an object that a variable points to is made a pointer, or cleared.
Set(v, old, new) ==
    /\ UNCHANGED stack /\ old # new
    /\ stack[v] \in DOMAIN old \cap DOMAIN new
    /\ \E k \in DOMAIN old[stack[v]] :
          LET w == new[stack[v]][k]
          IN  /\ w # 0 => Targets({w}, old) # {}
              /\ new = Kept(stack, [old EXCEPT ![stack[v]][k] = w])

Next == \E old \in {objects}, new \in {objects'}, v \in Var :
            Create(v, old, new) \/ Drop(v, old, new) \/ Set(v, old, new)

Spec == Init /\ [][Next]_vars
=============================================================================

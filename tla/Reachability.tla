---------------------------- MODULE Reachability ----------------------------
(* Which objects a conservative scan of words can reach: an object is named  *)
(* by its address and is a sequence of words, any of which may be a pointer. *)
EXTENDS Integers, Sequences, FiniteSets

\* A word points to an object when it is the address of one of its words or of
\* the word after the last.
Points(word, a, words) == a <= word /\ word - a <= Len(words)

Content(words) == {words[k] : k \in DOMAIN words}

Targets(words, objects) ==
    UNION {{a \in DOMAIN objects : Points(w, a, objects[a])} : w \in words}

\* Follows every pointer: from the roots into S, and inside S.
Closed(S, roots, objects) ==
    /\ Targets(roots, objects) \subseteq S
    /\ \A a \in S : Targets(Content(objects[a]), objects) \subseteq S

\* What the roots point to, what that points to, and so on: the least such set.
Closure(roots, objects) ==
    {a \in DOMAIN objects :
        \A S \in SUBSET DOMAIN objects : Closed(S, roots, objects) => a \in S}
=============================================================================

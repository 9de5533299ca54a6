------------------------------ MODULE MCPrompt ------------------------------
(* PromptCache for TLC: two conversations, one of them with a longer form. *)
EXTENDS PromptCache

CONSTANTS a, b, k, other

MCPrompts == {<<1>>, <<1, 2>>, <<3>>}
MCSize    == [p \in MCPrompts |-> Len(p)]
MCKey     == [s \in Servers |-> k]
MCFile(kk, p, st) == [key |-> kk, prompt |-> p, state |-> st]
MCFound == {<<MCFile(other, <<1, 2>>, "good")>>, <<MCFile(k, <<1>>, "flipped")>>, <<MCFile(k, <<3>>, "cut")>>}
MCSpilled == {<<1, 2>>}

\* The names of files matter only as far as they tell them apart: states that
\* differ in nothing else are one.
At0(id) == IF \E i \in DOMAIN dir : dir[i].id = id
           THEN CHOOSE i \in DOMAIN dir : dir[i].id = id ELSE 0
MCView ==
    <<[i \in DOMAIN dir |-> [dir[i] EXCEPT !.id = 0]],
      [s \in Servers |-> [i \in DOMAIN entries[s] |-> <<At0(entries[s][i].id), entries[s][i].prompt, entries[s][i].match>>]],
      [s \in Servers |-> [i \in DOMAIN todo[s] |-> <<At0(todo[s][i].id), todo[s][i].prompt>>]],
      up, wpc, cvars>>
=============================================================================

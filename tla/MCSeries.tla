------------------------------ MODULE MCSeries ------------------------------
(* Appendix VI's points, and the settings worth telling apart. *)
EXTENDS Series, TLC

MCPoints == [capture |-> [police |-> 20, thief |-> 5], survival |-> [police |-> 5, thief |-> 10]]

Setting(send, armed, named) ==
  [send |-> send, counted |-> armed, league |-> armed, named |-> named]

\* Reports are sent, but not to the league: windows that are counted play nothing.
MCFriendly == {Setting(TRUE, FALSE, TRUE)}

\* All that the league asks for, and a file that was never filled in: it sends
\* nothing, refuses --counted and names no rival.
MCConfig == {Setting(TRUE, TRUE, TRUE), Setting(FALSE, FALSE, FALSE)}

Symmetry == Permutations(Uid)
=============================================================================

---------------------------- MODULE MCLocalPeer ----------------------------
(* Model-checking instance of LocalPeer. *)
EXTENDS LocalPeer

\* Plain text, either tag, either escaped tag, and a tag cut in two.
MCBodies ==
  {<<"x">>, Open, <<"x">> \o Close, EscapedOpen, EscapedClose, <<"<", "x", "T">>}

\* Every body of up to five tokens that a tag can be made of.
MCTexts == UNION {[1 .. n -> Token \ {"x"}] : n \in 0 .. 5}
=============================================================================

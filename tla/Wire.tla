-------------------------------- MODULE Wire --------------------------------
(***************************************************************************)
(* The wrapper of message bodies and the escape of its tags within them     *)
(* (src/src/c2c/ferry/wire.py).                                             *)
(*                                                                          *)
(* A body is a sequence of tokens: "T" is the tag's name, the others are    *)
(* the characters a tag is made of, and "x" is any other text.  Attributes  *)
(* and line breaks of the wrapper are left out.                             *)
(***************************************************************************)
EXTENDS Sequences, SequencesExt

Token == {"<", "/", "\\", "T", ">", "x"}

Open == <<"<", "T">>               \* _OPEN
Close == <<"<", "/", "T", ">">>    \* _CLOSE
EscapedOpen == <<"<", "\\", "T">>
EscapedClose == <<"<", "\\", "/", "T", ">">>

\* Pattern pat occurs in text at position i.
At(pat, text, i) ==
  /\ i + Len(pat) - 1 <= Len(text)
  /\ SubSeq(text, i, i + Len(pat) - 1) = pat

Within(pats, text) == \E pat \in pats, i \in DOMAIN text : At(pat, text, i)

\* Mutant: closing tags are not escaped.
EscapeOpenOnly(body) ==
  FlattenSeq([i \in DOMAIN body |->
    IF At(Open, body, i) THEN <<"<", "\\">> ELSE <<body[i]>>])

\* _escape: a backslash goes after the '<' of every tag.  Tags do not overlap,
\* so the two replacements are one pass.
Escape(body) ==
  FlattenSeq([i \in DOMAIN body |->
    IF At(Open, body, i) \/ At(Close, body, i) THEN <<"<", "\\">> ELSE <<body[i]>>])

\* _unescape: the backslash of every escaped tag goes.
Unescape(text) ==
  FlattenSeq([i \in DOMAIN text |->
    IF i > 1 /\ (At(EscapedOpen, text, i - 1) \/ At(EscapedClose, text, i - 1))
    THEN <<>> ELSE <<text[i]>>])

Header == Open \o <<">">>
NoWrapper == <<"x">>

BuildWrapper(body) == Header \o Escape(body) \o Close

\* parse_wrapper: what is between the first tag and the last.
ParseWrapper(content) ==
  IF /\ IsPrefix(Header, content) /\ IsSuffix(Close, content)
     /\ Len(content) >= Len(Header) + Len(Close)
  THEN Unescape(SubSeq(content, Len(Header) + 1, Len(content) - Len(Close)))
  ELSE NoWrapper

\* What is escaped holds no tag, so no body is taken for the end of its
\* wrapper, and comes back from it, unless it held an escaped tag already.
EscapeIsSafe(body) ==
  /\ ~ Within({Open, Close}, Escape(body))
  /\ \/ ParseWrapper(BuildWrapper(body)) = body
     \/ Within({EscapedOpen, EscapedClose}, body)
=============================================================================

---------------------------- MODULE MCCheckouts ----------------------------
(* Model-checking instance of Checkouts. *)
EXTENDS MCFerry, Checkouts

\* One host, which is also written in capitals, and another, with three paths.
MCName == {"hub", "HUB", "lab", "a", "b", "r", "me", "22"}
MCLowerOf == [name \in MCName |-> IF name = "HUB" THEN "hub" ELSE name]
Repo(host, path) == [host |-> host, path |-> path]
MCRepositories ==
  {Repo(host, path) : host \in {<<"hub">>, <<"HUB">>, <<"lab">>},
                      path \in {<<"a", "/", "r">>, <<"b", "/", "r">>, <<"r">>}}

\* The asker and the agent in two checkouts of one repository, whose origins
\* are written differently, the agent again after it changed to another, and a
\* note from a third.
AskersOrigin == <<"ssh", "://", "me", "@", "HUB", ":", "22", "/", "a", "/", "r", ".git">>
AgentsOrigin == <<"me", "@", "hub", ":", "a", "/", "r">>
ElsewhereOrigin == <<"ssh", "://", "lab", "/", "a", "/", "r">>
NotesOrigin == <<"hub", "/", "a", "/", "r", "/">>

AskersEntry == [Asker EXCEPT !.project = Normalize(AskersOrigin)]
AgentsEntry == [Agent EXCEPT !.project = Normalize(AgentsOrigin)]
Elsewhere == [Agent EXCEPT !.project = Normalize(ElsewhereOrigin)]
AFarNote == [mid |-> 11, project |-> Normalize(NotesOrigin)]

MCEntries == {AskersEntry, AgentsEntry, Elsewhere, Astray}
OnlyAgentsEntry == {AgentsEntry}
NoteFromAfar == {AFarNote}

\* Two sessions without a user in their origins, in different repositories of
\* one host, of which the note is from the former's.
OneOrigin == <<"hub", ":", "a", "/", "r">>
OtherOrigin == <<"hub", ":", "b", "/", "r", ".git">>
InOne == [Agent EXCEPT !.project = Normalize(OneOrigin)]
InOther == [Asker EXCEPT !.project = Normalize(OtherOrigin)]
NoteFromOne == [mid |-> 12, project |-> Normalize(OneOrigin)]

WithoutUsers == {InOne, InOther}
NoteWithoutUser == {NoteFromOne}

MisreadCheckoutOf ==
  LET At(path, url) == [repo |-> Repo(<<"hub">>, path), url |-> url]
  IN   (InOne :> At(<<"a", "/", "r">>, OneOrigin))
    @@ (InOther :> At(<<"b", "/", "r">>, OtherOrigin))
    @@ (NoteFromOne :> At(<<"a", "/", "r">>, OneOrigin))

MCCheckoutOf ==
  LET shared == <<"a", "/", "r">>
      At(host, url) == [repo |-> Repo(host, shared), url |-> url]
  IN   (AskersEntry :> At(<<"HUB">>, AskersOrigin))
    @@ (AgentsEntry :> At(<<"hub">>, AgentsOrigin))
    @@ (Elsewhere :> At(<<"lab">>, ElsewhereOrigin))
    @@ (AFarNote :> At(<<"hub">>, NotesOrigin))
=============================================================================

------------------------------ MODULE Documents -------------------------------
(***************************************************************************)
(* An editor and nills, the language server of compiler/lsp/server.go, as  *)
(* they keep one another in step.  The client (external: an editor) has    *)
(* texts open, types in them and asks for a rename, a definition or a      *)
(* formatting; the server reads the requests one at a time, keeps its copy *)
(* of the texts, and publishes what it finds in them.  What it finds and   *)
(* what it answers are parameters, which LanguageServer defines.  Left     *)
(* out: the requests with fixed answers, references (renaming is made of   *)
(* them), the outline, and framing and JSON.                               *)
(***************************************************************************)
EXTENDS Naturals, Sequences, TLC

CONSTANTS Uris,        \* the documents there are
          Texts,       \* what a document may say when it is opened
          TypedIn(_),  \* what it may say after something was typed in it
          Askable,     \* the texts a client asks questions about
          MaxChanges,  \* bound: times something is typed in a document
          MaxAsked,    \* bound: questions a client asks
          Pipe,        \* bound: requests not read yet
          Finds(_),         \* what the server finds in a text
          DefinitionOf(_, _),  \* what it answers about a place in a text
          ReferencesOf(_, _),
          Formatted(_),
          Renaming(_, _),      \* what a client makes of a rename
          PlacesOf(_)          \* the places of a text a client asks about

VARIABLES documents,   \* server: uri -> the text, as far as it knows
          running,     \* server: the process has not crashed
          published,   \* the last diagnostics of each uri, with the text they are for
          inbox,       \* requests not read yet
          answers,     \* answers not read yet
          screen,      \* client: uri -> the text on the screen, NoText if it is not open
          changes,     \* client: times something was typed in it
          asked        \* client: questions asked

server   == <<documents, running, published>>
client   == <<screen, changes, asked>>
docsVars == <<server, inbox, answers, client>>

NoText      == ""
Unpublished == [of |-> NoText]

\* Nobody asks about a document that is not open.
ASSUME DocumentsAssumption == NoText \notin Askable

DocsInit ==
  /\ documents = [u \in {} |-> NoText] /\ running = TRUE /\ published = [u \in Uris |-> Unpublished]
  /\ inbox = <<>> /\ answers = <<>>
  /\ screen = [u \in Uris |-> NoText] /\ changes = [u \in Uris |-> 0] /\ asked = 0

Changing  == {"didOpen", "didChange"}
Questions == {"definition", "rename", "formatting"}

------------------------------------------------------------------------------
(* The server                                                              *)

Reading(methods) == running /\ inbox # <<>> /\ Head(inbox).method \in methods

\* The crash of the checker takes the process along.
Publish(u, src) ==
  LET found == Finds(src) IN
  IF found.checked.crashed THEN running' = FALSE /\ UNCHANGED published
  ELSE published' = [published EXCEPT ![u] = [of |-> src, found |-> found]] /\ UNCHANGED running

Keep(u, src) ==
  documents' = [v \in DOMAIN documents \cup {u} |-> IF v = u THEN src ELSE documents[v]]

\* Slip: what goes out is about the text before this one.
DidChangeStale ==
  /\ Reading(Changing)
  /\ LET r == Head(inbox) IN
     /\ Keep(r.uri, r.text)
     /\ Publish(r.uri, IF r.uri \in DOMAIN documents THEN documents[r.uri] ELSE r.text)
  /\ inbox' = Tail(inbox)
  /\ UNCHANGED <<answers, client>>

\* didOpen and didChange: the text is kept, and what is wrong with it goes out.
DidChange ==
  /\ Reading(Changing)
  /\ LET r == Head(inbox) IN Keep(r.uri, r.text) /\ Publish(r.uri, r.text)
  /\ inbox' = Tail(inbox)
  /\ UNCHANGED <<answers, client>>

Answer(method, Result(_, _)) ==
  /\ Reading({method})
  /\ LET r   == Head(inbox)
         src == IF r.uri \in DOMAIN documents THEN documents[r.uri] ELSE NoText
     IN  answers' = Append(answers, [method |-> method, uri |-> r.uri, for |-> src,
                                     pos |-> r.pos, result |-> Result(src, r.pos)])
  /\ inbox' = Tail(inbox)
  /\ UNCHANGED <<server, client>>

Definition == Answer("definition", LAMBDA src, pos : <<DefinitionOf(src, pos)>>)
Rename     == Answer("rename", ReferencesOf)
Formatting == Answer("formatting", LAMBDA src, pos : <<Formatted(src)>>)

------------------------------------------------------------------------------
(* The client                                                              *)

Send(r) == Len(inbox) < Pipe /\ inbox' = Append(inbox, r)

Somewhere == [line |-> 1, character |-> 1]

Open(u) ==
  /\ screen[u] = NoText
  /\ \E t \in Texts : /\ screen' = [screen EXCEPT ![u] = t]
                      /\ Send([method |-> "didOpen", uri |-> u, text |-> t, pos |-> Somewhere])
  /\ UNCHANGED <<server, answers, changes, asked>>

\* One question is open at a time, and nobody types until it is answered.
Idle == answers = <<>> /\ \A i \in DOMAIN inbox : inbox[i].method \in Changing

Shows(u, t) ==
  /\ screen' = [screen EXCEPT ![u] = t]
  /\ Send([method |-> "didChange", uri |-> u, text |-> t, pos |-> Somewhere])

Type(u) ==
  /\ Idle /\ screen[u] # NoText /\ changes[u] < MaxChanges
  /\ changes' = [changes EXCEPT ![u] = @ + 1]
  /\ \E t \in TypedIn(screen[u]) : Shows(u, t)
  /\ UNCHANGED <<server, answers, asked>>

Ask(u, method) ==
  /\ Idle /\ screen[u] \in Askable /\ asked < MaxAsked
  /\ asked' = asked + 1
  /\ \E pos \in IF method = "formatting" THEN {Somewhere} ELSE PlacesOf(screen[u]) :
       Send([method |-> method, uri |-> u, text |-> NoText, pos |-> pos])
  /\ UNCHANGED <<server, answers, screen, changes>>

Read ==
  /\ answers # <<>>
  /\ answers' = Tail(answers)
  /\ LET a == Head(answers) IN
     CASE a.method = "formatting" -> Shows(a.uri, a.result[1])
       [] a.method = "rename"     -> Shows(a.uri, Renaming(screen[a.uri], a.result))
       [] a.method = "definition" -> UNCHANGED <<screen, inbox>>
  /\ UNCHANGED <<server, changes, asked>>

Handle == DidChange \/ Definition \/ Rename \/ Formatting

DocsNext ==
  \/ Handle \/ Read
  \/ \E u \in Uris : Open(u) \/ Type(u) \/ \E m \in Questions : Ask(u, m)

DocsSpec == DocsInit /\ [][DocsNext]_docsVars

------------------------------------------------------------------------------
(* Properties                                                              *)

\* Once the server has read what was typed, its copy of the text and the
\* diagnostics are those of the screen, whatever the edits were: opened, typed,
\* made by a rename or by a formatting (didOpen, didChange and
\* publishDiagnostics).
Diagnosed ==
  \A u \in Uris :
    (running /\ screen[u] # NoText /\ \A i \in DOMAIN inbox : inbox[i].text = NoText) =>
      documents[u] = screen[u] /\ published[u].of = screen[u]

\* What the client is given to apply was made for the text it is applied to:
\* the places of a rename and the lines of a formatting are those of the screen
\* (handleRequest answers from the documents as they are).
EditsFit == \A i \in DOMAIN answers : answers[i].for = screen[answers[i].uri]

\* The server is never behind the editor but by what it has not read.
Current == Diagnosed /\ EditsFit

==============================================================================

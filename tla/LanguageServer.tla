--------------------------- MODULE LanguageServer ---------------------------
(***************************************************************************)
(* The handlers of the language server (hc-lsp/src/lsp/mod.rs).  They run  *)
(* on one task that polls up to MaxTasks of them: a handler starts in the  *)
(* order its message came and then gives way wherever it awaits, at the    *)
(* two locks, which are served in order, and at every message to the       *)
(* editor (log_message, publish_diagnostics), which goes out when the wait *)
(* begins.  A text is known by the version the editor gave it; 0 is no     *)
(* text.  Diagnostics and symbol tables are known by the text they are of. *)
(***************************************************************************)
EXTENDS Naturals, Sequences, FiniteSets

CONSTANTS Uris,
          MaxMessages,   \* bound on what the editor sends
          MaxTasks       \* handlers polled together

VARIABLES editor,      \* uri -> version in the editor, 0 when it is closed there
          fresh,       \* the last version given out
          msgs,        \* what the editor has sent
          tasks,       \* one handler for each message taken: where it is, what it holds
          documents,   \* uri -> [version, content], version 0 when there is none
          symbols,     \* uri -> content the table was built from
          docsLock, symbolsLock,   \* handlers that hold (the first) or want a lock
          shown        \* uri -> diagnostics the editor shows: [version, content]

serverVars == <<editor, fresh, msgs, tasks, documents, symbols, docsLock, symbolsLock, shown>>

Nothing == [version |-> 0, content |-> 0]

ServerInit ==
    /\ editor = [u \in Uris |-> 0] /\ fresh = 0 /\ msgs = <<>> /\ tasks = <<>>
    /\ documents = [u \in Uris |-> Nothing]
    /\ symbols = [u \in Uris |-> 0]
    /\ docsLock = <<>> /\ symbolsLock = <<>>
    /\ shown = [u \in Uris |-> Nothing]

Sends(kind, u, v) == msgs' = Append(msgs, [kind |-> kind, uri |-> u, version |-> v])

\* The editor: it opens, changes, saves and closes, and asks about any text.
Edits ==
    /\ Len(msgs) < MaxMessages
    /\ \E u \in Uris :
         \/ /\ fresh' = fresh + 1 /\ editor' = [editor EXCEPT ![u] = fresh']
            /\ Sends(IF editor[u] = 0 THEN "open" ELSE "change", u, fresh')
         \/ /\ editor[u] # 0 /\ editor' = [editor EXCEPT ![u] = 0]
            /\ Sends("close", u, 0) /\ UNCHANGED fresh
         \/ \E kind \in {"save", "query"} :
              editor[u] # 0 /\ Sends(kind, u, 0) /\ UNCHANGED <<editor, fresh>>
    /\ UNCHANGED <<tasks, documents, symbols, docsLock, symbolsLock, shown>>

-----------------------------------------------------------------------------
At(i, place) == i \in DOMAIN tasks /\ tasks[i].at = place
Moves(i, place) == tasks' = [tasks EXCEPT ![i].at = place]
Reads(i, place, content) == tasks' = [tasks EXCEPT ![i].at = place, ![i].content = content]

\* The editor shows what it is sent.
Publishes(u, version, content) ==
    shown' = [shown EXCEPT ![u] = [version |-> version, content |-> content]]

\* A handler up to its first await: did_save logs before it looks at anything.
Starts ==
    LET i == Len(tasks) + 1
        at == IF msgs[i].kind = "save" THEN "logs" ELSE "documents" IN
    /\ i <= Len(msgs)
    /\ Cardinality({j \in DOMAIN tasks : tasks[j].at # "end"}) < MaxTasks
    /\ tasks' = Append(tasks, [at |-> at, content |-> 0, left |-> {}])
    /\ docsLock' = IF at = "documents" THEN Append(docsLock, i) ELSE docsLock
    /\ UNCHANGED <<editor, fresh, msgs, documents, symbols, symbolsLock, shown>>

\* A handler that has come to the head of the queue for documents.
HasDocuments(i, kind) ==
    At(i, "documents") /\ msgs[i].kind = kind /\ docsLock[1] = i
LeavesDocuments == docsLock' = Tail(docsLock)

Opens(i) ==
    LET m == msgs[i] IN
    /\ HasDocuments(i, "open")
    /\ documents' = [documents EXCEPT ![m.uri] = [version |-> m.version, content |-> m.version]]
    /\ Reads(i, "logs", m.version)
    /\ UNCHANGED <<editor, fresh, msgs, symbols, docsLock, symbolsLock, shown>>

\* An update of a document that is not there is ignored, and reads no text.
Changes(i) ==
    LET m == msgs[i] IN
    /\ HasDocuments(i, "change")
    /\ documents' = IF documents[m.uri].version = 0 THEN documents
                    ELSE [documents EXCEPT ![m.uri] = [version |-> m.version, content |-> m.version]]
    /\ Reads(i, "logs", documents'[m.uri].content)
    /\ LeavesDocuments
    /\ UNCHANGED <<editor, fresh, msgs, symbols, symbolsLock, shown>>

Closes(i) ==
    /\ HasDocuments(i, "close")
    /\ documents' = [documents EXCEPT ![msgs[i].uri] = Nothing]
    /\ Moves(i, "logs")
    /\ UNCHANGED <<editor, fresh, msgs, symbols, docsLock, symbolsLock, shown>>

\* did_save: the texts and versions of all documents, taken at one moment.
Saves(i) ==
    /\ HasDocuments(i, "save")
    /\ tasks' = [tasks EXCEPT ![i].at = "publishes",
                    ![i].left = {<<u, documents[u]>> : u \in {x \in Uris : documents[x].version # 0}}]
    /\ LeavesDocuments
    /\ UNCHANGED <<editor, fresh, msgs, documents, symbols, symbolsLock, shown>>

\* goto_definition, hover, completion: nothing to say of a text that is not open.
Asks(i) ==
    /\ HasDocuments(i, "query")
    /\ LeavesDocuments
    /\ IF documents[msgs[i].uri].version = 0
       THEN Moves(i, "end") /\ UNCHANGED symbolsLock
       ELSE Moves(i, "symbols") /\ symbolsLock' = Append(symbolsLock, i)
    /\ UNCHANGED <<editor, fresh, msgs, documents, symbols, shown>>

\* Mutant: did_change reads the text of the document after it has logged.
LoggedReads(i) ==
    LET m == msgs[i] IN
    /\ At(i, "logs")
    /\ docsLock' = CASE m.kind \in {"open", "close"} -> Tail(docsLock)
                     [] m.kind = "save"              -> Append(docsLock, i)
                     [] OTHER                        -> docsLock
    /\ symbolsLock' = IF m.kind \in {"open", "change"} THEN Append(symbolsLock, i) ELSE symbolsLock
    /\ IF m.kind = "change" THEN Reads(i, "symbols", documents[m.uri].content)
       ELSE Moves(i, CASE m.kind = "close" -> "end" [] m.kind = "save" -> "documents" [] OTHER -> "symbols")
    /\ UNCHANGED <<editor, fresh, msgs, documents, symbols, shown>>

\* log_message is through: did_open and did_close let go of the documents,
\* did_open and did_change compile and go for the symbols.
Logged(i) ==
    LET kind == msgs[i].kind IN
    /\ At(i, "logs")
    /\ docsLock' = CASE kind \in {"open", "close"} -> Tail(docsLock)
                     [] kind = "save"              -> Append(docsLock, i)
                     [] OTHER                      -> docsLock
    /\ symbolsLock' = IF kind \in {"open", "change"} THEN Append(symbolsLock, i) ELSE symbolsLock
    /\ Moves(i, CASE kind = "close" -> "end" [] kind = "save" -> "documents" [] OTHER -> "symbols")
    /\ UNCHANGED <<editor, fresh, msgs, documents, symbols, shown>>

\* The table goes in and the diagnostics out; the lock is kept meanwhile.
Indexes(i) ==
    LET m == msgs[i] IN
    /\ At(i, "symbols") /\ symbolsLock[1] = i /\ m.kind # "query"
    /\ symbols' = [symbols EXCEPT ![m.uri] = tasks[i].content]
    /\ Publishes(m.uri, m.version, tasks[i].content)
    /\ Moves(i, "published")
    /\ UNCHANGED <<editor, fresh, msgs, documents, docsLock, symbolsLock>>

Answers(i) ==
    /\ At(i, "symbols") /\ symbolsLock[1] = i /\ msgs[i].kind = "query"
    /\ symbolsLock' = Tail(symbolsLock)
    /\ Moves(i, "end")
    /\ UNCHANGED <<editor, fresh, msgs, documents, symbols, docsLock, shown>>

Published(i) ==
    /\ At(i, "published")
    /\ symbolsLock' = Tail(symbolsLock)
    /\ Moves(i, "end")
    /\ UNCHANGED <<editor, fresh, msgs, documents, symbols, docsLock, shown>>

\* did_save, document after document, in the order of a hash map.
PublishesNext(i) ==
    /\ At(i, "publishes")
    /\ IF tasks[i].left = {} THEN Moves(i, "end") /\ UNCHANGED shown
       ELSE \E d \in tasks[i].left :
              /\ Publishes(d[1], d[2].version, d[2].content)
              /\ tasks' = [tasks EXCEPT ![i].left = @ \ {d}]
    /\ UNCHANGED <<editor, fresh, msgs, documents, symbols, docsLock, symbolsLock>>

Proceeds(i) ==
    Opens(i) \/ Changes(i) \/ Closes(i) \/ Saves(i) \/ Asks(i) \/ Logged(i)
    \/ Indexes(i) \/ Answers(i) \/ Published(i) \/ PublishesNext(i)

ServerNext == Edits \/ Starts \/ \E i \in DOMAIN tasks : Proceeds(i)

ServerSpec == ServerInit /\ [][ServerNext]_serverVars

-----------------------------------------------------------------------------
(* Diagnostics that the editor is sent are of the text of the version they *)
(* name, however handlers of further messages come in between: that is all *)
(* an editor has to put them in order with, because the server may send an *)
(* older set after a newer one (did_save publishes from its snapshot).     *)
VersionsMatch == \A u \in Uris : shown[u].content = shown[u].version

(* Once every handler has had the documents, they are the editor's.        *)
DocumentsFollow ==
    (Len(tasks) = Len(msgs) /\ ~\E i \in DOMAIN tasks : At(i, "documents"))
    => \A u \in Uris : documents[u] = [version |-> editor[u], content |-> editor[u]]

(* The locks are kept over awaits: whoever holds one is on its way to let  *)
(* go of it, and never waits for the other one.                            *)
NobodyIsStuck ==
    /\ docsLock # <<>> => tasks[docsLock[1]].at \in {"documents", "logs"}
    /\ symbolsLock # <<>> => tasks[symbolsLock[1]].at \in {"symbols", "published"}

(* What the editor is told and what the server knows are of one text each, *)
(* and no lock is waited for by its holder.                                *)
DiagnosticsMatch == VersionsMatch /\ DocumentsFollow /\ NobodyIsStuck
=============================================================================

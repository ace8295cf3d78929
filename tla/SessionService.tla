---------------------------- MODULE SessionService ----------------------------
(***************************************************************************)
(* What the language server relies on when it asks for analysis sessions,  *)
(* without the four maps and the shared resolver calls behind them: the    *)
(* objects of a document have texts, work on one starts and ends, and what *)
(* is served was such a text when the work began, analysed with the        *)
(* declarations of that very text's imports, no older than what had been   *)
(* told of at the last invalidation that no work was under way at.         *)
(***************************************************************************)
EXTENDS Integers

CONSTANTS
  Uris, Texts, TaskIds, NoEntry,
  ImportKey,        \* the import text of each content
  HasResolver       \* imports are resolved at all

VARIABLES
  texts,            \* texts[u]: the texts the objects of document u have
  world,            \* how often the files behind the imports have changed
  told,             \* how many of these changes the service was told of
  work,             \* work[t]: the uri and text of an analysis under way
  served,           \* served[u]: the session a request would be given
  floor             \* floor[u]: no session of u reads the files as before this

vars == <<texts, world, told, work, served, floor>>

Unresolved == -1

WorkOn(u) == {t \in TaskIds : work[t] # NoEntry /\ work[t].uri = u}

\* The moments a session of u may have read the files behind its imports at.
Readable(u) == IF HasResolver THEN floor[u]..world ELSE {Unresolved}

Init ==
  /\ texts = [u \in Uris |-> {}]
  /\ world = 0
  /\ told = 0
  /\ work = [t \in TaskIds |-> NoEntry]
  /\ served = [u \in Uris |-> NoEntry]
  /\ floor = [u \in Uris |-> 0]

\* The document is opened or edited; some texts are none of an object any more.
Write(u, text) ==
  /\ \E gone \in SUBSET texts[u] :
       texts' = [texts EXCEPT ![u] = (@ \ gone) \cup {text}]
  /\ UNCHANGED <<world, told, work, served, floor>>

WorldChanges ==
  /\ world' = world + 1
  /\ UNCHANGED <<texts, told, work, served, floor>>

\* A session of this text is what u's requests are given from now on.
Serves(u, text) ==
  \E e \in Readable(u) :
    served' = [served EXCEPT ![u] = [text |-> text, key |-> ImportKey[text], epoch |-> e]]

\* What is needed is at hand: the text of an object is analysed at once.
ServeNow(u) ==
  /\ \E text \in texts[u] : Serves(u, text)
  /\ UNCHANGED <<texts, world, told, work, floor>>

Begin(u, t) ==
  /\ work[t] = NoEntry
  /\ \E text \in texts[u] : work' = [work EXCEPT ![t] = [uri |-> u, text |-> text]]
  /\ UNCHANGED <<texts, world, told, served, floor>>

\* Work ends: it is served, or failed, or is older than what is served.
End(t) ==
  /\ work[t] # NoEntry
  /\ work' = [work EXCEPT ![t] = NoEntry]
  /\ Serves(work[t].uri, work[t].text) \/ UNCHANGED served
  /\ UNCHANGED <<texts, world, told, floor>>

\* The uris in S are invalidated, with k changes told of by now: a promise for
\* those without work under way, none for the others.
Drop(S, k) ==
  /\ told' = k
  /\ served' = [u \in Uris |-> IF u \in S THEN NoEntry ELSE served[u]]
  /\ floor' = [u \in Uris |-> IF u \notin S THEN floor[u]
                              ELSE IF WorkOn(u) = {} THEN k ELSE 0]
  /\ UNCHANGED <<texts, world, work>>

Next ==
  \/ \E u \in Uris, text \in Texts : Write(u, text)
  \/ WorldChanges
  \/ \E u \in Uris : ServeNow(u) \/ \E t \in TaskIds : Begin(u, t)
  \/ \E t \in TaskIds : End(t)
  \/ \E S \in SUBSET Uris, k \in told..world : Drop(S, k)

Spec == Init /\ [][Next]_vars

=============================================================================

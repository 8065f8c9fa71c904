---------------------------- MODULE DocumentStore ----------------------------
(***************************************************************************)
(* What the knowledge documents promise to those who edit them and to the  *)
(* diagnoses that cite them, whatever staging, indexing, projections,      *)
(* cleanups and restarts do: a document says one version at a time; a      *)
(* request takes effect once or not at all, at one moment, and only on the *)
(* version its client knew; and what is being cited is not changed.        *)
(***************************************************************************)
CONSTANTS
  Docs,      \* documents
  Versions,  \* versions, each a document and what it says
  None,      \* no version
  Clients,   \* requests of those who edit
  Readers    \* diagnoses

VARIABLES
  says,   \* the version of each document, and whether it is deleted
  wish,   \* what each client asks for and has not got: a version, in place of the one it knows
  cited   \* the version each diagnosis is about to cite

storeVars == <<says, wish, cited>>

NoWish == [delete |-> FALSE, v |-> None, known |-> None]

StoreInit ==
  /\ says = [d \in Docs |-> [version |-> None, deleted |-> FALSE]]
  /\ wish = [c \in Clients |-> NoWish]
  /\ cited = [r \in Readers |-> None]

Shown(v) == says[v[1]] = [version |-> v, deleted |-> FALSE]

\* A client asks for a publication or a deletion; who deletes names the version.
Ask(c, delete, v, known) ==
  /\ wish[c] = NoWish
  /\ delete => known = v
  /\ wish' = [wish EXCEPT ![c] = [delete |-> delete, v |-> v, known |-> known]]
  /\ UNCHANGED <<says, cited>>

\* It is answered without an effect.
Answer(c) ==
  /\ wish' = [wish EXCEPT ![c] = NoWish]
  /\ UNCHANGED <<says, cited>>

\* The wish of a client is granted: nobody cites, and the document still says what the client
\* knew, or what it asks for.
Grant(c) ==
  LET q == wish[c]
      d == q.v[1]
  IN /\ q # NoWish
     /\ \A r \in Readers : cited[r] = None
     /\ says[d].version \in {q.known, q.v}
     /\ says' = [says EXCEPT ![d] = [version |-> q.v, deleted |-> q.delete]]
     /\ wish' = [wish EXCEPT ![c] = NoWish]
     /\ UNCHANGED cited

\* A diagnosis cites what a document says.
Cite(r, v) ==
  /\ Shown(v)
  /\ cited' = [cited EXCEPT ![r] = v]
  /\ UNCHANGED <<says, wish>>

\* The citation is recorded, or given up.
Cited(r) ==
  /\ cited' = [cited EXCEPT ![r] = None]
  /\ UNCHANGED <<says, wish>>

\* Clients and diagnoses are cut off; the documents say what they said.
Restart ==
  /\ wish' = [c \in Clients |-> NoWish]
  /\ cited' = [r \in Readers |-> None]
  /\ UNCHANGED says

StoreNext ==
  \/ \E r \in Readers : Cited(r) \/ \E v \in Versions : Cite(r, v)
  \/ \E c \in Clients : Answer(c) \/ Grant(c)
  \/ \E c \in Clients, delete \in BOOLEAN, v \in Versions, known \in Versions \cup {None} :
       Ask(c, delete, v, known)
  \/ Restart

StoreSpec == StoreInit /\ [][StoreNext]_storeVars

===============================================================================

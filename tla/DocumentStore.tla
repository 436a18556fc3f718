--------------------------- MODULE DocumentStore ---------------------------
(***************************************************************************)
(* What the program promises its client (README.md, Functionalities): a    *)
(* store of documents in which an EDIT replaces the content of a document  *)
(* and a GET answers with the content of the latest EDIT, whatever queues, *)
(* caches and servers lie between the two.                                 *)
(*                                                                         *)
(* The store is open while there is a server.  A closed one holds nothing  *)
(* and answers nothing; when the last server is removed its documents go   *)
(* with it (Forget).                                                       *)
(***************************************************************************)
CONSTANTS Docs, Contents, NULL

VARIABLES
    docs,     \* the content of every document, NULL if there is none
    answer,   \* the answer to the latest request
    open      \* whether there is a server to ask

vars == <<docs, answer, open>>

Answer == [kind : {"queued", "content"}, doc : Docs, content : Contents \cup {NULL}]

Init ==
    /\ docs = [d \in Docs |-> NULL]
    /\ answer = NULL
    /\ open \in BOOLEAN

Open ==
    /\ ~ open
    /\ open' = TRUE
    /\ UNCHANGED <<docs, answer>>

Edit(d, c) ==
    /\ open
    /\ answer' = [kind |-> "queued", doc |-> d, content |-> NULL]
    /\ docs' = [docs EXCEPT ![d] = c]
    /\ UNCHANGED open

Get(d) ==
    /\ open
    /\ answer' = [kind |-> "content", doc |-> d, content |-> docs[d]]
    /\ UNCHANGED <<docs, open>>

Forget ==
    /\ open
    /\ open' = FALSE
    /\ UNCHANGED answer
    /\ docs' = [d \in Docs |-> NULL]

Next ==
    \/ Open
    \/ \E d \in Docs, c \in Contents : Edit(d, c)
    \/ \E d \in Docs : Get(d)
    \/ Forget

Spec == Init /\ [][Next]_vars
=============================================================================

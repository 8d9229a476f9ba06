---------------------------- MODULE SearchIndex ----------------------------
(***************************************************************************)
(* The prompts as the table and the search engine have them                *)
(* (search.service.ts, search.module.ts).  Postgres is the source of       *)
(* truth; a document is written without waiting for it, may be lost, and   *)
(* is never removed.  An administrator rebuilds the index.  A search asks  *)
(* the engine, or Postgres when the engine fails.                          *)
(*                                                                         *)
(* The search here is one term that all titles match, and its micro cache  *)
(* of 15 s is left out: an answer may be that much older.                  *)
(***************************************************************************)
EXTENDS Naturals, FiniteSets

CONSTANTS
    Titles,          \* every title anybody may use
    MaxRebuilds      \* bound on the rebuilds of the index

ASSUME RebuildsAssumption == MaxRebuilds \in Nat

VARIABLES
    prompts,         \* the rows of the table
    gone,            \* the rows that have been deleted (history)
    index,           \* the documents of cr-prompts
    writes,          \* the index calls on their way
    healed,          \* what the last reindexAll has read (history)
    rebuilds

searchVars == <<index, writes, healed, rebuilds>>

(* n tells rows of one title and kind of creator apart.                    *)
Prompt == [title : Titles, system : BOOLEAN, public : BOOLEAN, n : Nat]

SearchTypeOK ==
    /\ {prompts, gone, index, writes, healed} \subseteq SUBSET Prompt
    /\ rebuilds \in Nat

SearchInit ==
    /\ gone = {} /\ index = {} /\ writes = {} /\ healed = {}
    /\ rebuilds = 0

Public(rows) == {r \in rows : r.public}

-----------------------------------------------------------------------------

IndexPrompt(r) == writes' = writes \cup {r}

Indexed(r) ==
    /\ r \in writes
    /\ writes' = writes \ {r}
    /\ index' = index \cup {r}
    /\ UNCHANGED <<prompts, gone, healed, rebuilds>>

(* The failure is logged and forgotten.                                    *)
IndexFailed(r) ==
    /\ r \in writes
    /\ writes' = writes \ {r}
    /\ UNCHANGED <<prompts, gone, index, healed, rebuilds>>

(* Reads the tables and sends one bulk request, which writes documents and *)
(* deletes none: what is written in between is the same whichever is first.*)
ReindexAll ==
    /\ rebuilds < MaxRebuilds
    /\ rebuilds' = rebuilds + 1
    /\ index' = index \cup prompts
    /\ healed' = prompts
    /\ UNCHANGED <<prompts, gone, writes>>

-----------------------------------------------------------------------------

SearchAll == Public(index)

(* Mutant: the fallback forgets the filter.                                *)
SearchEverything == prompts
SearchPostgres == Public(prompts)

(* GET /search asks the engine, and the table when the engine is not there *)
(* or fails.                                                               *)
Answers == {SearchAll, SearchPostgres}

SearchNext ==
    \/ \E r \in writes : Indexed(r) \/ IndexFailed(r)
    \/ ReindexAll

-----------------------------------------------------------------------------
(* Properties.                                                             *)

(* Whichever source answers, a search shows public prompts only, and finds *)
(* every public prompt there was when the last rebuild read the tables,    *)
(* unless it has been deleted since ("a lost index write self-heals on the *)
(* next reindex", search.service.ts:13).                                   *)
SearchSound ==
    \A rows \in Answers : rows = Public(rows) /\ Public(healed) \ gone \subseteq rows

=============================================================================

------------------------------ MODULE DocTable ------------------------------
(***************************************************************************)
(* hw2/DocTable.c: two hash tables, from document ids to names and from    *)
(* names to ids, and the next id.  The tables are taken as maps (KeyMap).  *)
(***************************************************************************)
EXTENDS Integers

VARIABLES id_to_name, name_to_id, max_id

docTableVars == <<id_to_name, name_to_id, max_id>>

INVALID_DOCID == 0
NoName == 0   \* GetDocName's NULL: no document has this name

DocTable_Allocate ==
  /\ id_to_name = [id \in {} |-> NoName] /\ name_to_id = [name \in {} |-> INVALID_DOCID]
  /\ max_id = 1

(* The id that DocTable_Add returns: a name is given one id for good.      *)
AddedId(doc_name) == IF doc_name \in DOMAIN name_to_id THEN name_to_id[doc_name] ELSE max_id

FaultyNextId == max_id
NextId == max_id + 1

Inserted(table, key, value) == [k \in DOMAIN table \cup {key} |-> IF k = key THEN value ELSE table[k]]

DocTable_Add(doc_name) ==
  \/ doc_name \in DOMAIN name_to_id /\ UNCHANGED docTableVars
  \/ /\ doc_name \notin DOMAIN name_to_id
     /\ max_id' = NextId
     /\ id_to_name' = Inserted(id_to_name, max_id, doc_name)
     /\ name_to_id' = Inserted(name_to_id, doc_name, max_id)

DocTable_GetDocID(doc_name) == IF doc_name \in DOMAIN name_to_id THEN name_to_id[doc_name] ELSE INVALID_DOCID
DocTable_GetDocName(doc_id) == IF doc_id \in DOMAIN id_to_name THEN id_to_name[doc_id] ELSE NoName
=============================================================================

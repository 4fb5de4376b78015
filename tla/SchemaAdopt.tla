----------------------------- MODULE SchemaAdopt -----------------------------
(***************************************************************************)
(* `gaman adopt` (src/src/cli/dispatch.rs): entities of a live database    *)
(* are taken into the schema files, and a migration is made that creates   *)
(* them.  The files are written before the migration, so either may be     *)
(* missing afterwards.                                                     *)
(*                                                                         *)
(* The schema files are one YAML file.  The live database has what some    *)
(* other contents of the project say; managed rows are not inspected.      *)
(***************************************************************************)
EXTENDS SchemaMake

VARIABLE adopting   \* the last call of make was made by an adoption

adoptVars == <<vars, adopting>>

RootOf(k) == IF k.kind \in RootKinds THEN k ELSE OwnerKey(k)

\* The selected roots of the live schema, types as the catalog spells them.
Inspected(live, roots) ==
  [k \in {x \in DOMAIN live : x.kind # "row" /\ RootOf(x) \in roots} |->
     IF k.kind = "column" THEN [live[k] EXCEPT !.type = TypeKey[@]] ELSE live[k]]

\* What cannot be written as a schema file: options the model of a table does
\* not hold.
Exportable(fragment) == \A t \in Tables(fragment) : fragment[TableKey(t)].opts = None

TableExists(s, name) == name \in UNION {{t, Bare[t]} : t \in Tables(s)}

\* Every table a foreign key names is selected or managed already.
DependenciesOwned(fragment, authored) ==
  \A k \in DOMAIN fragment : k.kind = "foreign_key" =>
    TableExists(fragment, fragment[k].to) \/ TableExists(authored, fragment[k].to)

\* Tables, functions and sequences are added once; views, extensions and enums
\* take the place of those of the same name.
Mergeable(authored, fragment) ==
  \A k \in DOMAIN authored \cap DOMAIN fragment : RootOf(k).kind \in {"view", "extension", "enum"}

\* The answers with which make can be repeated, in the two rounds there are.
Round(cur, D) ==
  UNION {{Over(d, a) : a \in Answers(Response(history, cur, {}, d).reply.ask)} :
         d \in {x \in D : Response(history, cur, {}, x).reply.kind = "needs input"}}
Conversations(cur) ==
  LET first == Round(cur, {NoDecisions})
  IN  {NoDecisions} \cup first \cup Round(cur, first)

\* Slip: that there is a migration is taken for enough.
OnlyAdds_Anything(response) == response.reply.kind = "created"

OnlyAdds(response) ==
  /\ response.reply.kind = "created"
  /\ \A i \in DOMAIN response.ops : IsCreate(response.ops[i])

\* The preview: some conversation ends with a migration that only adds.
Previewed(cur) == \E d \in Conversations(cur) : OnlyAdds(Response(history, cur, {}, d))

\* The file is written; then make is called again, with no answers, and what it
\* creates is not looked at.  It may not come to that.
Persist(cur) ==
  /\ desired' = cur
  /\ \/ Return({}, NoDecisions, Response(history, cur, {}, NoDecisions))
     \/ Return({}, NoDecisions, Refusal("interrupted"))

AdoptFragment(fragment) ==
  /\ Exportable(fragment) /\ Valid(fragment)
  /\ DependenciesOwned(fragment, desired)
  /\ Mergeable(desired, fragment)
  /\ Previewed(Over(desired, fragment))
  /\ Persist(Over(desired, fragment))

\* Only when the files say what the history says; no filter selects everything.
Adopt ==
  /\ reply.kind # "needs input"
  /\ Len(history) < MaxMigrations
  /\ Response(history, desired, {}, NoDecisions).reply.kind = "no changes"
  /\ \E project \in Projects : desired \in project /\
       \E live \in project : \E roots \in {RootKeys(live)} \cup {{k} : k \in RootKeys(live)} :
         AdoptFragment(Inspected(live, roots))
  /\ adopting' = TRUE
  /\ UNCHANGED edits

AdoptInit == Init /\ adopting = FALSE
AdoptNext ==
  \/ Edit /\ adopting' = FALSE
  \/ Make /\ adopting' = FALSE
  \/ AnswerAll /\ UNCHANGED adopting
  \/ Adopt
AdoptSpec == AdoptInit /\ [][AdoptNext]_adoptVars

-----------------------------------------------------------------------------
(* What an adoption may do to what was managed before.                     *)

\* dispatch.rs:380: adoption makes no destructive or unrelated operations.  Where
\* its migration replays, what was managed before stays as it was and an enum
\* keeps its values in their order, though only the preview is looked at, the
\* questions are asked again after it, and renamed enum values count as additions
\* (operations.rs:706): their migration does not replay.
AdoptionOnlyAdds ==
  adopting /\ MadeAndReplayed =>
    \A k \in DOMAIN Prior :
      /\ k \in DOMAIN Current
      /\ IF k.kind = "enum" THEN IsSubsequence(Prior[k].values, Current[k].values)
         ELSE SameDef(k, Prior[k], Current[k])
=============================================================================

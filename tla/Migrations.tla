------------------------------- MODULE Migrations -------------------------------
(***************************************************************************)
(* The database schema at startup (utils/migration_check.py). On SQLite     *)
(* each starting gateway applies the migration files it finds and records   *)
(* them; on Postgres it only compares them with what the migrations         *)
(* container recorded. The file is shared: gateways of two releases may     *)
(* start on it at the same time, and any of them may be killed.             *)
(*                                                                          *)
(* A file is a sequence of statements that commit one by one: "create"      *)
(* (CREATE ... IF NOT EXISTS) can be repeated, "alter" (ADD COLUMN) cannot. *)
(* A release may ship a file edited, which stands for one more statement at *)
(* its end; a record holds the hash of the text, or NULL if it is old.      *)
(***************************************************************************)
EXTENDS Naturals, Sequences, FiniteSets

CONSTANTS
  Gateways,
  Files,     \* the migration files, in order
  Marker,    \* the file, not the first, whose table tells a snapshot-era database
  Seeded,    \* the last file such a database is taken to have had
  Editable   \* the files that a release may have edited

VARIABLES
  sqlite,     \* which database
  schema,     \* the statements that took effect
  recorded,   \* _migrations
  hashes,     \* content_hash of each record: "none" (NULL), "first" or "edited"
  release,    \* what each gateway ships: [files, edited], the first so many files
  doubtful,   \* two gateways were starting on the same SQLite file, or an edited
              \* file was taken for one of the snapshot era
  gateway     \* what each starting gateway is doing

\* With no files, or no directory, at all: what the code expects is not known.
Releases == {r \in [files : 0..Len(Files), edited : {0} \cup Editable] : r.edited <= r.files}
Length(f, text) == Len(Files[f]) + IF text = "edited" THEN 1 ELSE 0
Of(f, text) == {<<f, s>> : s \in 1..Length(f, text)}
Ships(g) == 1..release[g].files
Text(g, f) == IF f = release[g].edited THEN "edited" ELSE "first"
\* Mutant: the hashes are not compared.
NeverEdited(g, f) == FALSE
Edited(g, f) == hashes[f] \notin {"none", Text(g, f)}

(* A new database, or an old one: on SQLite one of the snapshot era, whose  *)
(* schema came as a whole and whose files were never recorded; on Postgres  *)
(* one whose records have no hashes yet.                                    *)
Old == UNION {Of(f, "first") : f \in 1..Seeded}
MgInit ==
  /\ sqlite \in BOOLEAN
  /\ schema \in {{}, Old}
  /\ recorded = (IF sqlite \/ schema = {} THEN {} ELSE 1..Seeded)
  /\ hashes = [f \in 1..Len(Files) |-> "none"] /\ doubtful = FALSE
  /\ release \in [Gateways -> Releases]
  /\ gateway = [g \in Gateways |-> [at |-> "down", file |-> 0, next |-> 0, applied |-> {}]]

At(g, where) == gateway[g].at = where
Goes(g, where) == gateway' = [gateway EXCEPT ![g].at = where]
Records(f, text) == recorded' = recorded \cup {f} /\ hashes' = [hashes EXCEPT ![f] = text]

(* The container, of any release, applies a file and records it. Killed in  *)
(* between it leaves what it applied, and applies the whole file the next   *)
(* time: psql goes on behind a statement that fails as it was done already. *)
Contain(f, text) ==
  /\ ~sqlite /\ f \notin recorded /\ \A e \in 1..(f - 1) : e \in recorded
  /\ \/ schema' = schema \cup Of(f, text) /\ Records(f, text)
     \/ /\ \E n \in 1..Length(f, text) : schema' = schema \cup {<<f, s>> : s \in 1..n}
        /\ UNCHANGED <<recorded, hashes>>
  /\ UNCHANGED <<sqlite, release, doubtful, gateway>>

(* check_migrations: files that are not recorded, records of files that are *)
(* not there, or another hash than the record's stop a gateway on Postgres; *)
(* one that finds no file at all warns and is up.                           *)
Compare(g) ==
  /\ ~sqlite /\ At(g, "down")
  /\ Goes(g, IF Ships(g) = {} \/ (recorded = Ships(g) /\ \A f \in recorded : ~Edited(g, f)) THEN "up" ELSE "failed")
  /\ UNCHANGED <<sqlite, schema, recorded, hashes, release, doubtful>>

(* A gateway that finds no file warns and is up. An empty _migrations       *)
(* beside the marker table is a database of the snapshot era: the files of  *)
(* that time are recorded as applied, with the hashes they have now, one    *)
(* INSERT OR IGNORE at a time. The two queries are two steps.               *)
Starting(g) == gateway[g].at \notin {"down", "up", "failed"}
Unchecked(g) ==
  /\ sqlite /\ At(g, "down") /\ Ships(g) = {} /\ Goes(g, "up")
  /\ UNCHANGED <<sqlite, schema, recorded, hashes, release, doubtful>>
Count(g) ==
  /\ sqlite /\ At(g, "down") /\ Ships(g) # {}
  /\ Goes(g, IF recorded = {} THEN "marker" ELSE "reading")
  /\ doubtful' = (doubtful \/ \E h \in Gateways \ {g} : Starting(h))
  /\ UNCHANGED <<sqlite, schema, recorded, hashes, release>>
SeedsAlways == TRUE
IsMarked == <<Marker, 1>> \in schema
Detect(g) ==
  /\ At(g, "marker")
  /\ Goes(g, IF IsMarked THEN "seeding" ELSE "reading")
  /\ UNCHANGED <<sqlite, schema, recorded, hashes, release, doubtful>>
Seed(g) ==
  /\ At(g, "seeding")
  /\ LET f == gateway[g].file + 1
     IN  IF f \in Ships(g) /\ f <= Seeded
           THEN /\ IF f \in recorded THEN UNCHANGED <<recorded, hashes>> ELSE Records(f, Text(g, f))
                /\ gateway' = [gateway EXCEPT ![g].file = f]
                /\ doubtful' = (doubtful \/ Text(g, f) = "edited")
           ELSE Goes(g, "reading") /\ UNCHANGED <<recorded, hashes, doubtful>>
  /\ UNCHANGED <<sqlite, schema, release>>

(* The files in order: one not found recorded is applied, one whose record  *)
(* has another hash stops the gateway. A record, once there, stays.         *)
Turn(g, f, applied) ==
  LET todo == {e \in Ships(g) : e > f /\ (e \notin applied \/ Edited(g, e))}
      file == CHOOSE e \in todo : \A d \in todo : e <= d
  IN  IF todo = {} THEN [at |-> "up", file |-> f, next |-> 0, applied |-> applied]
      ELSE IF file \in applied THEN [at |-> "failed", file |-> file, next |-> 0, applied |-> applied]
      ELSE [at |-> "script", file |-> file, next |-> 1, applied |-> applied]
Read(g) ==
  /\ At(g, "reading")
  /\ gateway' = [gateway EXCEPT ![g] = Turn(g, 0, recorded)]
  /\ UNCHANGED <<sqlite, schema, recorded, hashes, release, doubtful>>

(* executescript: each statement commits; a column that is there already    *)
(* fails the script, and the startup.                                       *)
Repeatable(f, s) == s > Len(Files[f]) \/ Files[f][s] = "create"
Statement(g) ==
  /\ At(g, "script")
  /\ LET f == gateway[g].file
         s == gateway[g].next
     IN  IF ~Repeatable(f, s) /\ <<f, s>> \in schema
           THEN Goes(g, "failed") /\ UNCHANGED schema
           ELSE /\ schema' = schema \cup {<<f, s>>}
                /\ gateway' = [gateway EXCEPT ![g].at = IF s = Length(f, Text(g, f)) THEN "recording" ELSE "script",
                                              ![g].next = s + 1]
  /\ UNCHANGED <<sqlite, recorded, hashes, release, doubtful>>

(* The INSERT that follows: filename is the primary key.                    *)
Record(g) ==
  /\ At(g, "recording")
  /\ LET f == gateway[g].file
     IN  IF f \in recorded
           THEN Goes(g, "failed") /\ UNCHANGED <<recorded, hashes>>
           ELSE /\ Records(f, Text(g, f))
                /\ gateway' = [gateway EXCEPT ![g] = Turn(g, f, gateway[g].applied)]
  /\ UNCHANGED <<sqlite, schema, release, doubtful>>

(* A gateway is killed, or ends, and may be started again, upgraded or not. *)
Restart(g, r) ==
  /\ ~At(g, "down")
  /\ gateway' = [gateway EXCEPT ![g] = [at |-> "down", file |-> 0, next |-> 0, applied |-> {}]]
  /\ release' = [release EXCEPT ![g] = r]
  /\ UNCHANGED <<sqlite, schema, recorded, hashes, doubtful>>

MgNext == \/ \E f \in 1..Len(Files) : Contain(f, "first") \/ (f \in Editable /\ Contain(f, "edited"))
          \/ \E g \in Gateways : \/ Compare(g) \/ Unchecked(g) \/ Count(g) \/ Detect(g) \/ Seed(g) \/ Read(g)
                                 \/ Statement(g) \/ Record(g) \/ \E r \in Releases : Restart(g, r)

-----------------------------------------------------------------------------
(* A gateway that found migration files serves only on the schema its code  *)
(* expects: every statement of every file it ships, as it ships it, has     *)
(* taken effect, whichever starts were killed or came from another release, *)
(* and no file is skipped because it was recorded before it was complete.   *)
(* Excepted are the files whose record has no hash, which are taken to be   *)
(* as they first were; two first starts that overlap on one SQLite file,    *)
(* where one may see the marker table the other made; and an edited file    *)
(* that is taken for one of the snapshot era. Of a gateway that finds no    *)
(* file, and serves on any schema after a warning, nothing is said.         *)
UpMeansMigrated ==
  ~doubtful =>
  /\ \A g \in Gateways : At(g, "up") =>
       \A f \in Ships(g) : Of(f, IF hashes[f] = "none" THEN "first" ELSE Text(g, f)) \subseteq schema
  /\ \A f \in recorded : Of(f, hashes[f]) \subseteq schema
=============================================================================

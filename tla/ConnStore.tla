----------------------------- MODULE ConnStore -----------------------------
(***************************************************************************)
(* The connections file and the production guard that reads it             *)
(* (internal/web/store.go, production.go).                                 *)
(*                                                                         *)
(* A spelling is one way to write the address of a database: host, port,   *)
(* name and user, or a raw connection string.  Two spellings may reach one *)
(* database; the guard compares their keys, not the databases.  The file   *)
(* is the sequence of its entries in List's order: most recently used      *)
(* first, the never used last.                                             *)
(***************************************************************************)
EXTENDS Naturals, SequencesExt, FiniteSetsExt, Picking

CONSTANTS Spellings,
          Raw,       \* the spellings that are connection strings
          KeyOf,     \* spelling -> infoKey: driver, host, port, name and user,
                     \* None without a host and a name
          DbOf,      \* spelling -> the database it reaches
          NameOf,    \* spelling -> the label an entry without one gets
          Ids,       \* ids an entry can have
          Labels,
          None

ASSUME StoreAssumption == Raw \subseteq Spellings /\ None \notin Ids \cup Labels

\* An entry, and one as it is submitted: without an id, or a label, or both.
Entry     == [id : Ids, at : Spellings, label : Labels, prod : BOOLEAN, pw : BOOLEAN]
Submitted == [id : Ids \cup {None}, at : Spellings, label : Labels \cup {None},
              prod : BOOLEAN, pw : BOOLEAN]

\* The entries of the file with this id: one or none.
Places(file, id) == {i \in DOMAIN file : file[i].id = id}
Has(file, id)    == Places(file, id) # {}
Lookup(file, id) == file[Min(Places(file, id))]
FreshIds(file)   == {id \in Ids : ~Has(file, id)}

Named(e) == IF e.label = None THEN [e EXCEPT !.label = NameOf[e.at]] ELSE e

\* A connection without a password in the file needs one typed, unless its
\* connection string carries it.
NeedsPassword(e) == ~e.pw /\ e.at \notin Raw

\* Save: an entry with a new id joins at the end, one with a known id replaces
\* the old and keeps its password when none is given.
SaveInto(file, e, clear) ==
    LET c == [Named(e) EXCEPT !.pw = @ /\ ~clear]
    IN  IF ~Has(file, e.id) THEN Append(file, c)
        ELSE [i \in DOMAIN file |->
                IF i = Min(Places(file, e.id))
                THEN [c EXCEPT !.pw = @ \/ (~clear /\ file[i].pw)]
                ELSE file[i]]

DeleteFrom(file, id) == Among(file, {e \in Range(file) : e.id # id})

\* Touch: used now, so listed first.
TouchIn(file, id) ==
    IF ~Has(file, id) THEN file
    ELSE <<Lookup(file, id)>> \o DeleteFrom(file, id)

\* What Import takes for the same connection: savedConnectionKey, which is the
\* text of a connection string, not the address in it.
Identity(at) == IF at \in Raw THEN <<"dsn", at>> ELSE <<"key", KeyOf[at]>>

\* Import: entries whose address or label is already there are skipped.
ImportInto(file, given) ==
    LET known(f, e) == \E i \in DOMAIN f : \/ Identity(f[i].at) = Identity(e.at)
                                           \/ f[i].label = Named(e).label
        add(f, e) == IF known(f, e) \/ FreshIds(f) = {} THEN f
                     ELSE Append(f, [Named(e) EXCEPT !.id = CHOOSE id \in FreshIds(f) : TRUE])
        grown[n \in 0..Len(given)] == IF n = 0 THEN file ELSE add(grown[n - 1], given[n])
    IN  grown[Len(given)]

(***************************************************************************)
(* The guard.  A target is a saved id, a key, both or neither.             *)
(***************************************************************************)
Target(id, key) == [saved |-> id, key |-> key]

\* Mutant of ProductionEntries: a session is known only by its saved entry.
ProductionBySavedId(file, t) ==
    {i \in DOMAIN file : file[i].prod /\ t.saved # None /\ file[i].id = t.saved}

ProductionEntries(file, t) ==
    {i \in DOMAIN file :
        /\ file[i].prod
        /\ \/ t.saved # None /\ file[i].id = t.saved
           \/ t.key # None /\ KeyOf[file[i].at] = t.key}

\* guardProduction: the label to type is that of the first entry listed.  A
\* file that cannot be read guards nothing.
Refused(readable, file, t, typed) ==
    LET marked == ProductionEntries(file, t)
    IN  /\ readable /\ marked # {}
        /\ ~\E i \in marked : typed = file[i].label /\ \A j \in marked : i <= j

\* unflagRefusal: the mark goes only when the label is typed.
UnflagRefused(readable, file, e, typed) ==
    /\ readable
    /\ e.id # None
    /\ ~e.prod
    /\ Has(file, e.id)
    /\ Lookup(file, e.id).prod
    /\ typed # Lookup(file, e.id).label
=============================================================================

----------------------------- MODULE MCWebRuns -----------------------------
EXTENDS WebRuns, TLC

\* One database: by its parts, as a connection string, and as another user.
MCSpellings == {"parts", "dsn", "other"}
MCRaw       == {"dsn"}
MCKey       == [parts |-> "app@db", dsn |-> "app@db", other |-> "root@db"]
MCDb        == [at \in MCSpellings |-> "db"]
MCName      == [at \in MCSpellings |-> "db"]

Saved(id, at, label, prod, pw) == [id |-> id, at |-> at, label |-> label, prod |-> prod, pw |-> pw]

Prod  == Saved("i1", "parts", "prod", TRUE, TRUE)
Plain == Saved("i2", "other", "db", FALSE, FALSE)

\* Nothing open yet, an ad hoc session, and one opened from an entry that was
\* edited since: it now spells the address the other entry protects.
MCStarts == {Start(<<Plain, Prod>>, at, None) : at \in {"dsn", "other", None}}
    \cup {Start(<<Prod, [Plain EXCEPT !.prod = TRUE]>>, "other", "i1")}

\* The production entry without its mark, an ad hoc connection to the same
\* address, and one that marks the other user's entry.
MCForms == {[Prod EXCEPT !.prod = FALSE, !.pw = FALSE],
            Saved(None, "dsn", None, FALSE, FALSE),
            Saved("i2", "other", "prod", TRUE, TRUE)}

MCLists == {<<Saved(None, "dsn", "a", FALSE, FALSE), Saved(None, "other", "a", TRUE, FALSE),
              Saved(None, "dsn", "b", FALSE, FALSE)>>}

SomeFault == {"file", "write"}
Symmetry == Permutations(Requests) \cup Permutations(Sids)
=============================================================================

----------------------------- MODULE MCSessions -----------------------------
EXTENDS Sessions, TLC

\* The two rows of the table in auth.rs (0 and 1), cut down to one that is like
\* both of them in what it may do here, and a row without can_invite, which the
\* macro allows.
MCIds   == {1, 2}
MCPerms == 1 :> {"can_invite"} @@ 2 :> {"can_create"}
=============================================================================

----------------------------- MODULE UserStore ------------------------------
(***************************************************************************)
(* The functions of src/shared/users.c as operators on the table of        *)
(* accounts: the sequence entries[0 .. count-1].  A name or a password is  *)
(* an element of Text; Kept[t] is what strncpy leaves of t in an array of  *)
(* NAME_LEN (or PASS_LEN) bytes: t itself when it fits, a proper prefix    *)
(* otherwise.                                                              *)
(***************************************************************************)
EXTENDS Integers, Sequences

CONSTANTS
    Text,       \* the words of requests, which names and passwords are
    Kept,       \* [Text -> Text]: truncation to NAME_LEN - 1 bytes
    UsersMax    \* USERS_MAX

\* What stands for the password of nobody.
Absent == "absent"

ASSUME TextAssumption ==
    /\ Kept \in [Text -> Text]
    /\ \A t \in Text : Kept[Kept[t]] = Kept[t]
    /\ Absent \notin Text
ASSUME UsersMaxAssumption == UsersMax \in Nat \ {0}

Entry == [name : Text, pass : Text]

\* find_user: the first entry whose name is the given one, 0 when there is
\* none.  strncmp compares the stored, truncated name with the whole argument.
FindUser(u, name) ==
    LET hits == {i \in 1..Len(u) : u[i].name = name}
    IN  IF hits = {} THEN 0 ELSE CHOOSE i \in hits : \A j \in hits : i <= j

\* users_add returns false exactly when the name is new and the table is full.
CanAdd(u, name) == FindUser(u, name) # 0 \/ Len(u) < UsersMax

\* users_add
UsersAdd(u, name, pass) ==
    LET i == FindUser(u, name)
    IN  IF i # 0 THEN [u EXCEPT ![i].pass = Kept[pass]]
        ELSE IF CanAdd(u, name) THEN Append(u, [name |-> Kept[name], pass |-> Kept[pass]])
        ELSE u

\* (mutant) the last entry is dropped without taking the deleted one's place.
UsersDelNoMove(u, name) ==
    IF FindUser(u, name) = 0 THEN u ELSE SubSeq(u, 1, Len(u) - 1)

\* users_del: the last entry takes the place of the deleted one.
UsersDel(u, name) ==
    LET i == FindUser(u, name)
    IN  IF i = 0 THEN u
        ELSE SubSeq([u EXCEPT ![i] = u[Len(u)]], 1, Len(u) - 1)
=============================================================================

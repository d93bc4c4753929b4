--------------------------- MODULE MCAdminClient ---------------------------
(* An instance of AdminClient for TLC: every kind of program on its own, and *)
(* some of them in pairs.                                                    *)
EXTENDS AdminClient, TLC

CONSTANTS s1, s2

\* Commands, their arguments, and the arguments of the client.  One password is
\* too long for its array.
Words ==
    {"AUTH", "STATS", "USERS", "USER", "SET", "DELETE", "CONFIG", "GET", "QUIT", "NOPE",
     "key", "bad", "x", "idle-timeout", "9", "u", "v", "p", "p...",
     "stats", "users", "user", "set", "delete", "config", "get", "quit"}
MCKept == [t \in Text |-> IF t = "p..." THEN "p" ELSE t]

\* The table is empty or full.
Account(n) == [name |-> n, pass |-> "p"]
MCTables == {<<>>, <<Account("v"), Account("u")>>}

Auth  == <<"AUTH", "key">>
Wrong == <<"AUTH", "bad">>
Set(n) == <<"USER", "SET", n, "p">>
Delete(n) == <<"USER", "DELETE", n>>

\* Every command and every form of it that mng.c tells apart; two with a CR.
Commands ==
    {Auth, <<"AUTH">>, <<"AUTH", "key", "x">>, <<>>, <<"QUIT", "x">>, <<"NOPE">>,
     <<"STATS", "x">>, <<"USERS", CR>>, <<"USER">>, <<"USER", CR, "x">>,
     Set("u"), Set("p"), <<"USER", "SET", "u">>, <<"USER", "SET", "u", "p...", "x">>, <<"USER", "SET", "u", "p...">>,
     Delete("u"), Delete("v"), <<"USER", "DELETE">>,
     <<"CONFIG">>, <<"CONFIG", "GET">>, <<"CONFIG", "GET", "x">>, <<"CONFIG", "x">>,
     <<"CONFIG", "SET", "idle-timeout", "9">>, <<"CONFIG", "SET", "idle-timeout", "x">>,
     <<"CONFIG", "SET", "x", "9">>, <<"CONFIG", "SET", "x">>}

\* A line one word longer than the buffer, with what its tail spells.
Long == <<"x", "x", "x", "x", "x", "x", "QUIT">>

\* Right and wrong secrets in several orders; commands with and without login;
\* lines that are too long, and lines after QUIT.
Talks ==
    {<<Wrong, Wrong, Wrong, Auth>>, <<Wrong, Wrong, Auth, Wrong>>, <<Auth, Wrong, Wrong, Wrong>>}
      \cup {<<c>> : c \in {Set("u"), Delete("u"), <<"USERS">>, <<"CONFIG", "SET", "idle-timeout", "9">>}}
      \cup {<<Auth, c>> : c \in Commands}
      \cup {<<Auth, Long, <<"STATS">>>>, <<<<"QUIT">>, Auth, Set("u")>>}

\* A command line of arguments that are single words.
Plain(words) == [i \in 1..Len(words) |-> <<words[i]>>]

\* Every command, one that fails, two that are refused, and arguments with spaces.
Every ==
    {Plain(<<"user", "set", "u", "p">>), Plain(<<"user", "delete", "u">>),
     Plain(<<"stats">>), Plain(<<"users">>), Plain(<<"config", "get">>),
     Plain(<<"config", "set", "idle-timeout", "9">>), Plain(<<"config", "set", "x", "9">>),
     Plain(<<"user", "set", "u">>), Plain(<<"quit">>),
     <<<<"user">>, <<"set">>, <<"u", "v">>, <<>>>>,
     <<<<"user">>, <<"set">>, <<"u", "v">>, <<"p">>>>,
     <<<<"user">>, <<"set">>, <<"u", "v">>, <<"p", "p">>>>,
     <<<<"user">>, <<"delete">>, <<"u", "v">>>>}

\* -a: not given, right, wrong, with a space, empty, and as long as a line.
Secrets ==
    {<<>>, <<<<"key">>>>, <<<<"bad">>>>, <<<<"key", "x">>>>, <<<<>>>>,
     <<[i \in 1..CommandSize |-> "x"]>>}

Alone == {Other(t) : t \in Talks} \cup {Tool(c, k) : c \in Every, k \in Secrets}

\* Programs that meet over the account u.
Setter  == Tool(Plain(<<"user", "set", "u", "p">>), <<<<"key">>>>)
Deleter == Tool(Plain(<<"user", "delete", "u">>), <<<<"key">>>>)
Pairs == {<<Setter, Deleter>>, <<Other(<<Auth, Set("v")>>), Other(<<Set("u")>>)>>}

MCScenes ==
    {s1 :> p @@ s2 :> Nobody : p \in Alone} \cup {s1 :> p[1] @@ s2 :> p[2] : p \in Pairs}
=============================================================================

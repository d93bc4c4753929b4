---------------------------- MODULE AdminClient ----------------------------
(***************************************************************************)
(* The management client (src/client/main.c) and the management service:   *)
(* at the other end of each descriptor of the service there is one run of  *)
(* the client, with its command line, or any other program, which has some *)
(* lines to say.  A run may be interrupted, and a connection reset, at any *)
(* time.                                                                   *)
(***************************************************************************)
EXTENDS Management

CONSTANTS
    Scenes,         \* what may happen at the other ends: [Sessions -> Peer]
    CommandSize     \* COMMAND_SIZE

\* Both are 1024: a line that the client agrees to send is one that the service takes.
ASSUME CommandSizeAssumption == CommandSize \in Nat /\ CommandSize <= LineSize

VARIABLES
    cli,       \* [Sessions -> the program at the other end]
    inbox,     \* [Sessions -> responses sent that the client has not read]
    log        \* history: [Sessions -> lines handled and responses given, also after the end]

cvars == <<cli, inbox, log>>
allVars == <<ses, users, config, active, metric, alive, cli, inbox, log>>

\* The i-th argument when it is the one word given.
Says(argv, i, word) == argv[i] = <<word>>

\* build_command: the words of the line, <<>> for a command line it does not know.
\* An argument may hold spaces: it is a sequence of words, and nothing quotes it.
\* (One with an LF, which the code does not refuse, is outside this model.)
BuildCommand(argv) ==
    CASE Len(argv) = 1 /\ Says(argv, 1, "stats") -> <<"STATS">>
      [] Len(argv) = 1 /\ Says(argv, 1, "users") -> <<"USERS">>
      [] Len(argv) = 4 /\ Says(argv, 1, "user") /\ Says(argv, 2, "set") ->
            <<"USER", "SET">> \o argv[3] \o argv[4]
      [] Len(argv) = 3 /\ Says(argv, 1, "user") /\ Says(argv, 2, "delete") ->
            <<"USER", "DELETE">> \o argv[3]
      [] Len(argv) = 2 /\ Says(argv, 1, "config") /\ Says(argv, 2, "get") -> <<"CONFIG", "GET">>
      [] Len(argv) = 4 /\ Says(argv, 1, "config") /\ Says(argv, 2, "set") ->
            <<"CONFIG", "SET">> \o argv[3] \o argv[4]
      [] OTHER -> <<>>

\* The line, its LF and the terminator must fit in the array.
Fits(words) == Len(words) + 1 < CommandSize

\* strncmp(response, "+OK", 3) == 0
IsOK(say) == say \in {"+OK authenticated", "+OK stats", "+OK users", "+OK user set",
                      "+OK user deleted", "+OK config", "+OK config set", "+OK bye"}

\* The programs at the other end: a run of the client with its arguments and
\* the argument of -a (<<>> without it); a program that sends the lines of talk.
Nobody == [pc |-> "none", argv |-> <<>>, secret |-> <<>>, talk |-> <<>>, exit |-> "none", told |-> ""]
Tool(argv, secret) == [Nobody EXCEPT !.pc = "start", !.argv = argv, !.secret = secret]
Other(talk)        == [Nobody EXCEPT !.pc = "other", !.talk = talk]

ASSUME ScenesAssumption ==
    /\ {"AUTH", "STATS", "USERS", "USER", "SET", "DELETE", "CONFIG", "GET"} \subseteq Text
    /\ \A scene \in Scenes :
         scene \in [Sessions -> [pc : {"none", "start", "other"}, argv : Seq(Seq(Text)),
                                secret : Seq(Seq(Text)), talk : Seq(Seq(Text \cup {CR})),
                                exit : {"none"}, told : {""}]]

CInit ==
    /\ Init
    /\ cli \in Scenes
    /\ inbox = [s \in Sessions |-> <<>>]
    /\ log = [s \in Sessions |-> [served |-> <<>>, answers |-> <<>>]]

\* The command of a run r of the client, and "AUTH %s\n".
Command(r) == BuildCommand(r.argv)
Login(r)   == <<"AUTH">> \o r.secret[1]

serverVars == <<ses, users, config, active, metric, alive>>

\* The client ends with an exit code, having printed what it was told.
Exits(s, r, code, said) ==
    cli' = [cli EXCEPT ![s] = [r EXCEPT !.pc = "exited", !.exit = code, !.told = said]]

\* main up to the connection: getopt, build_command, connect_to.  (-h and an
\* unknown option only print the usage.)
Start(s) ==
    /\ cli[s].pc = "start"
    /\ \/ /\ Command(cli[s]) = <<>> \/ ~Fits(Command(cli[s]))
          /\ Exits(s, cli[s], "1", "") /\ UNCHANGED serverVars
       \/ /\ Command(cli[s]) # <<>> /\ Fits(Command(cli[s]))
          /\ PassiveAccept(s)
          /\ cli' = [cli EXCEPT ![s].pc = IF cli[s].secret = <<>> THEN "command" ELSE "auth"]
    /\ UNCHANGED <<inbox, log>>

\* connect_to fails: no such address, or nobody listens.
ConnectFails(s) ==
    /\ cli[s].pc = "start"
    /\ Exits(s, cli[s], "1", "")
    /\ UNCHANGED <<inbox, log>> /\ UNCHANGED serverVars

\* The connection of s can still carry bytes.
Connected(s) == ses[s].open /\ ~ses[s].rst

\* send_all of a line.
Sends(s, words, wait) ==
    /\ Connected(s)
    /\ ses' = [ses EXCEPT ![s] = Asked(@, words)]
    /\ cli' = [cli EXCEPT ![s].pc = wait]
    /\ UNCHANGED <<users, config, active, metric, alive, inbox, log>>

SendAuth(s) == cli[s].pc = "auth" /\ Fits(Login(cli[s])) /\ Sends(s, Login(cli[s]), "authReply")
SendCommand(s) == cli[s].pc = "command" /\ Sends(s, Command(cli[s]), "reply")

\* close(fd) at the end of main, or by the kernel.
Hangs(s) ==
    /\ ses' = IF Connected(s) THEN [ses EXCEPT ![s].fin = TRUE] ELSE ses
    /\ UNCHANGED <<users, config, active, metric, alive, log>>

\* read_line after AUTH.
ReadAuth(s) ==
    /\ cli[s].pc = "authReply" /\ inbox[s] # <<>>
    /\ inbox' = [inbox EXCEPT ![s] = Tail(@)]
    /\ IF IsOK(Head(inbox[s]))
       THEN cli' = [cli EXCEPT ![s].pc = "command"] /\ UNCHANGED <<serverVars, log>>
       ELSE Exits(s, cli[s], "1", Head(inbox[s])) /\ Hangs(s)

\* (mutant) having got any answer is success.
ExitCodeAny(say) == "0"

\* The value that main returns.
ExitCode(say) == IF IsOK(say) THEN "0" ELSE "1"

\* read_line after the command; the response is printed and main returns.
ReadReply(s) ==
    /\ cli[s].pc = "reply" /\ inbox[s] # <<>>
    /\ inbox' = [inbox EXCEPT ![s] = Tail(@)]
    /\ Exits(s, cli[s], ExitCode(Head(inbox[s])), Head(inbox[s])) /\ Hangs(s)

\* (mutant) after an error the command is sent once more on a new connection.
ExchangeFailsRetry(s) ==
    /\ cli[s].pc = "reply" /\ inbox[s] = <<>> /\ ~Connected(s) /\ ~ses[s].open
    /\ PassiveAccept(s)
    /\ cli' = [cli EXCEPT ![s].pc = IF cli[s].secret = <<>> THEN "command" ELSE "auth"]
    /\ UNCHANGED <<inbox, log>>

\* The secret does not fit in its line: nothing is sent.
AuthTooLong(s) ==
    /\ cli[s].pc = "auth" /\ ~Fits(Login(cli[s]))
    /\ Exits(s, cli[s], "1", "") /\ Hangs(s)
    /\ UNCHANGED inbox

\* send or recv reports that the connection is gone.
ExchangeFails(s) ==
    /\ cli[s].pc \in {"auth", "authReply", "command", "reply"}
    /\ inbox[s] = <<>> /\ ~Connected(s)
    /\ Exits(s, cli[s], "1", "") /\ Hangs(s)
    /\ UNCHANGED inbox

\* The user interrupts the client.
Interrupted(s) ==
    /\ cli[s].pc \in {"auth", "authReply", "command", "reply"}
    /\ Exits(s, cli[s], "signal", "") /\ Hangs(s)
    /\ UNCHANGED inbox

Reset(s) == ClientResets(s) /\ UNCHANGED cvars

\* Another program connects, once or several times, and says its lines.
OtherConnects(s) == cli[s].pc = "other" /\ PassiveAccept(s) /\ UNCHANGED cvars

OtherActs(s) ==
    /\ cli[s].pc = "other"
    /\ \/ ClientEnds(s)
       \/ LET n == Len(ses[s].asked) IN n < Len(cli[s].talk) /\ ClientSends(s, cli[s].talk[n + 1])
    /\ UNCHANGED cvars

\* What a sequence has more than before.
Grown(before, after) == SubSeq(after, Len(before) + 1, Len(after))

\* A step of the service: what it sends goes to the client of that connection.
Serves(s) ==
    /\ Read(s) \/ WriteAll(s) \/ WriteFails(s) \/ WriteKilled(s)
    /\ inbox' = IF cli[s].pc # "other" /\ ses'[s].open /\ ses'[s].got > ses[s].got
                THEN [inbox EXCEPT ![s] = Append(@, ses'[s].answers[ses'[s].got])] ELSE inbox
    /\ log' = IF cli[s].pc # "other" /\ ses'[s].open
              THEN [log EXCEPT ![s] =
                     [served |-> @.served \o Grown(ses[s].served, ses'[s].served),
                      answers |-> @.answers \o Grown(ses[s].answers, ses'[s].answers)]]
              ELSE log
    /\ UNCHANGED cli

ServesPart(s) == WritePart(s) /\ UNCHANGED cvars

CNext ==
    \E s \in Sessions :
        \/ Start(s) \/ ConnectFails(s) \/ SendAuth(s) \/ AuthTooLong(s) \/ ReadAuth(s)
        \/ SendCommand(s) \/ ReadReply(s) \/ ExchangeFails(s) \/ Interrupted(s) \/ Reset(s)
        \/ OtherConnects(s) \/ OtherActs(s)
        \/ Serves(s) \/ ServesPart(s)

Client(s) == SendAuth(s) \/ AuthTooLong(s) \/ ReadAuth(s)
               \/ SendCommand(s) \/ ReadReply(s) \/ ExchangeFails(s)

\* The client runs until it waits for the service, which serves ready descriptors.
CFairness == \A s \in Sessions : WF_allVars(Client(s) \/ Serves(s))

CSpec == CInit /\ [][CNext]_allVars /\ CFairness

-----------------------------------------------------------------------------
\* The line AUTH of a run, when it sends one, and the line of its command.
Script(r) ==
    (IF r.secret = <<>> THEN <<>> ELSE Append(Login(r), LF)) \o Append(Command(r), LF)

\* How many lines that is, and the response to the last of them: "" as long as
\* the service gave none.
Turns(r)      == IF r.secret = <<>> THEN 1 ELSE 2
Verdict(r, g) == IF Len(g.answers) >= Turns(r) THEN g.answers[Turns(r)] ELSE ""

(***************************************************************************)
(* README.md:146: a run that exits with 0 had exactly its command carried  *)
(* out, once, on a connection that gave the secret; one that was told an   *)
(* error had nothing carried out.  (A run that lost its connection or was  *)
(* interrupted cannot know, and does not exit with 0.)                     *)
(***************************************************************************)
ExitTellsTruth ==
    \A s \in Sessions :
        LET r == cli[s]
            g == log[s]
        IN  /\ r.exit = "0" =>
                 /\ g.served = Script(r) /\ IsOK(Verdict(r, g))
                 /\ g.answers[1] = "+OK authenticated"
            /\ r.exit = "1" /\ r.told # "" => ~IsOK(Verdict(r, g))

(***************************************************************************)
(* docs/management-protocol.md:36: the client waits for each response      *)
(* before it sends again, and never sends its command twice: the service   *)
(* has handled a beginning of the two lines, and has one of them at most.  *)
(* A line that the client agrees to send is never too long (:27).          *)
(***************************************************************************)
Conforms ==
    \A s \in Sessions : cli[s].pc # "other" =>
        /\ Len(log[s].served) <= Len(Script(cli[s]))
        /\ log[s].served = SubSeq(Script(cli[s]), 1, Len(log[s].served))
        /\ ses[s].open => Len(ses[s].asked) - ses[s].got <= 1
        /\ Len(inbox[s]) <= 1
        /\ \A i \in 1..Len(log[s].answers) : log[s].answers[i] # "-ERR line too long"

\* Somebody waits at the other end of s: the client from its connection to its
\* end, another program for the response to a line.
Waits(s) ==
    IF cli[s].pc = "other" THEN ses[s].open /\ ses[s].got < Len(ses[s].asked)
    ELSE cli[s].pc \in {"auth", "authReply", "command", "reply"}

(***************************************************************************)
(* Nobody waits for ever.  Every request is answered or its session ends,  *)
(* also when several arrive in one segment and no further byte ever does;  *)
(* and a run of the client ends, although it has no timeout: a service     *)
(* that is up answers it, and one that died takes the connection with it.  *)
(***************************************************************************)
NobodyWaits == \A s \in Sessions : Waits(s) ~> ~Waits(s)

-----------------------------------------------------------------------------
\* The program at the other end; who is to send AUTH has a secret.
IsPeer(r) ==
    /\ r \in [pc : {"none", "start", "other", "auth", "authReply", "command", "reply", "exited"},
             argv : Seq(Seq(Text)), secret : Seq(Seq(Text)), talk : Seq(Seq(Text \cup {CR})),
             exit : {"none", "0", "1", "signal"}, told : {r.told}]
    /\ r.pc \in {"auth", "authReply"} => r.secret # <<>>

PeersInv == cli = [s \in Sessions |-> cli[s]] /\ \A s \in Sessions : IsPeer(cli[s])

\* What a run of the client has sent with its first k lines.
Sofar(r, k) ==
    IF k = 0 THEN <<>> ELSE IF k = Turns(r) THEN Script(r) ELSE Append(Login(r), LF)

\* A run r and its session m, as long as it is open: how many lines were sent.
Talking(r, m, g) ==
    /\ r.pc \notin {"none", "start"} /\ Command(r) # <<>> /\ Fits(Command(r))
    /\ g.served = m.served /\ g.answers = m.answers
    /\ Len(m.asked) <= Turns(r) /\ m.sent = Sofar(r, Len(m.asked))
    /\ \A i \in 1..Len(m.asked) : Len(NoCR(m.asked[i])) < LineSize
    /\ r.pc = "auth" => Len(m.asked) = 0
    /\ r.pc = "authReply" => Len(m.asked) = 1
    /\ r.pc = "command" => Len(m.asked) = Turns(r) - 1
    /\ r.pc = "reply" => Len(m.asked) = Turns(r)

\* The run has read c responses, and another one is waiting at most.
Heard(r, m, box, g, c) ==
    /\ Len(g.answers) <= c + 1
    /\ box = <<>> \/ (Len(g.answers) = c + 1 /\ box = <<g.answers[c + 1]>>)
    /\ m.open => Len(m.asked) <= c + 1 /\ m.got = c + Len(box)
    /\ r.pc \in {"auth", "authReply"} => c = 0
    /\ r.pc \in {"command", "reply"} => c = Turns(r) - 1 /\ Len(g.answers) >= c

\* The history is a beginning of the script, with a response to each line.
Logged(r, g) ==
    /\ g \in [served : Seq(Byte), answers : Seq(Answers)]
    /\ r.pc \in {"none", "start"} \/ g.answers = <<>> => g.served = <<>>
    /\ Len(g.served) <= Len(Script(r)) /\ g.served = SubSeq(Script(r), 1, Len(g.served))
    /\ Cardinality(Places(g.served, LF)) = Len(g.answers)
    /\ \A i \in 1..Len(g.answers) : g.answers[i] # LineTooLong
    /\ r.secret = <<>> => \A i \in 1..Len(g.answers) : ~IsOK(g.answers[i])
    /\ r.secret # <<>> /\ g.answers # <<>> /\ IsOK(g.answers[1]) => g.answers[1] = Accepted

\* What the run concludes from what it was told.
Concluded(r, m, g) ==
    /\ r.secret # <<>> /\ r.pc \in {"command", "reply"} => IsOK(g.answers[1])
    /\ r.pc # "exited" => r.exit = "none"
    /\ r.exit = "0" =>
         /\ Len(g.answers) = Turns(r) /\ IsOK(g.answers[Turns(r)])
         /\ g.answers[1] = Accepted
    /\ r.exit = "1" /\ r.told # "" =>
         /\ ~IsOK(Verdict(r, g))
         /\ Len(g.answers) = Turns(r) \/ (m.open => Len(m.asked) < Turns(r))

RunInv(r, m, box, g) ==
    /\ r.pc = "other" => r.exit = "none"
    /\ r.pc # "other" =>
         /\ m.open => Talking(r, m, g)
         /\ \E c \in 0..Turns(r) : Heard(r, m, box, g, c)
         /\ Logged(r, g) /\ Concluded(r, m, g)

RunsInv ==
    /\ inbox = [s \in Sessions |-> inbox[s]] /\ log = [s \in Sessions |-> log[s]]
    /\ \A s \in Sessions : RunInv(cli[s], ses[s], inbox[s], log[s])

=============================================================================

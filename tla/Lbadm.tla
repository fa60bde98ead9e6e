------------------------------- MODULE Lbadm -------------------------------
(***************************************************************************)
(* The command line tool org.jlab.hpdf.cli.Lbadm, run again and again in   *)
(* several shells against one control plane.  A run parses its options,    *)
(* builds an EjfatURI out of EJFAT_URI and an LbManager out of that, makes *)
(* one call through jniLbManager.cpp, and prints the LbManager's internal  *)
(* URI as the call has left it, which the next run is started with.        *)
(*                                                                         *)
(* The control plane and the E2SAR client inside LbManager are external.   *)
(* They follow the javadoc of LbManager and the option texts of Lbadm:     *)
(* which token each call needs, what reserve and register put into the     *)
(* internal URI, and that workers and reservations expire.                 *)
(***************************************************************************)
EXTENDS UriTokens

CONSTANTS
  Shells,       \* shells in which the tool is run
  CommandLines  \* what is typed: the set of options on each command line

Commands == {"reserve", "free", "version", "register", "deregister", "status", "state",
             "overview", "addsenders", "removesenders"}

ASSUME CommandLineAssumption == \A line \in CommandLines : line \subseteq STRING

ASSUME ShellAssumption == NoId \notin Shells

VARIABLES
  reserved,  \* control plane: the run that each live reservation was made for
  safe,      \* control plane: reservations with a list of safe senders
  workers,   \* control plane: the reservation of each live worker session
  used,      \* control plane: reservations and sessions handed out so far
  env,       \* EJFAT_URI of each shell
  proc       \* the Lbadm process of each shell

cp == <<reserved, safe, workers, used>>
vars == <<reserved, safe, workers, used, env, proc>>

NoUri == [token |-> NoToken, lbid |-> NoId, sessionId |-> NoId]

Prompt == [pc |-> "prompt", line |-> {}, uri |-> EjfatURI(NoUri, "ADMIN"), end |-> "none",
           printed |-> NoUri]

Init ==
  /\ reserved = [lb \in Reservations |-> NoId]
  /\ safe = {}
  /\ workers = [s \in Sessions |-> NoId]
  /\ used = {}
  /\ \E admin \in Shells :
       env = [sh \in Shells |-> IF sh = admin THEN [NoUri EXCEPT !.token = AdminToken]
                                             ELSE NoUri]
  /\ proc = [sh \in Shells |-> Prompt]

-----------------------------------------------------------------------------
(* The options.                                                            *)
optionDependency(line, forWhat, required) == forWhat \in line => required \in line
conflictingOptions(line, opt1, opt2) == opt1 \in line /\ opt2 \in line

(* Mutated form: the checks of register stop short of the port.            *)
AcceptedWithoutPort(line) ==
  /\ optionDependency(line, "reserve", "lbname") /\ optionDependency(line, "reserve", "address")
  /\ optionDependency(line, "register", "name") /\ optionDependency(line, "register", "address")
  /\ optionDependency(line, "addsenders", "address")
  /\ optionDependency(line, "removesenders", "address")
  /\ ~conflictingOptions(line, "ipv4", "ipv6")
  /\ \A c1, c2 \in Commands : c1 # c2 => ~conflictingOptions(line, c1, c2)

AcceptedOptions(line) ==
  /\ optionDependency(line, "reserve", "lbname") /\ optionDependency(line, "reserve", "address")
  /\ optionDependency(line, "register", "name") /\ optionDependency(line, "register", "address")
  /\ optionDependency(line, "register", "port")
  /\ optionDependency(line, "addsenders", "address")
  /\ optionDependency(line, "removesenders", "address")
  /\ ~conflictingOptions(line, "ipv4", "ipv6")
  /\ \A c1, c2 \in Commands : c1 # c2 => ~conflictingOptions(line, c1, c2)

(* Mutated form: state is forgotten.                                       *)
TokenTypeNotOfState(line) ==
  CASE line \cap {"reserve", "free", "status", "version"} # {} -> "ADMIN"
    [] line \cap {"register", "addsenders", "removesenders"} # {} -> "INSTANCE"
    [] "deregister" \in line -> "SESSION"
    [] OTHER -> "ADMIN"

TokenType(line) ==
  CASE line \cap {"reserve", "free", "status", "version"} # {} -> "ADMIN"
    [] line \cap {"register", "addsenders", "removesenders"} # {} -> "INSTANCE"
    [] line \cap {"deregister", "state"} # {} -> "SESSION"
    [] OTHER -> "ADMIN"

(* The command the chain of else-ifs at the end of main runs: there is no  *)
(* option "addSenders" for the branch of that name.                        *)
Branches == Commands \ {"addsenders"}

Command(line) == IF line \cap Branches = {} THEN "help"
                                            ELSE CHOOSE c \in Branches : c \in line

(* What main and the functions it calls pass on without a test, and do not *)
(* survive as null.                                                        *)
Dereferenced(command) ==
  CASE command \in {"reserve", "removesenders"} -> {"address"}
    [] command = "register" -> {"name", "address", "port"}
    [] OTHER -> {}

(* What the user types after --uri, --lbid and --session: a URI that is in *)
(* the environment of some shell, and ids the control plane has given out. *)
Typed(line) ==
  [uri : IF "uri" \in line THEN {env[sh] : sh \in Shells} ELSE {NoUri},
   lbid : IF "lbid" \in line THEN used \cap Reservations ELSE {NoId},
   session : IF "session" \in line THEN used \cap Sessions ELSE {NoId}]

StartUri(sh, line, typed) == IF "uri" \in line THEN typed.uri ELSE env[sh]

(* setSessionId and setLbid override what was parsed.                      *)
OverriddenUri(sh, line, typed) ==
  [EjfatURI(StartUri(sh, line, typed), TokenType(line)) EXCEPT
     !.sessionId = IF "session" \in line THEN typed.session ELSE @,
     !.lbid = IF "lbid" \in line THEN typed.lbid ELSE @]

(* main, up to its call of a command.                                      *)
main(sh, line, typed) ==
  LET ended(why) == [Prompt EXCEPT !.pc = "done", !.line = line, !.end = why] IN
  /\ proc[sh].pc = "prompt"
  /\ proc' = [proc EXCEPT ![sh] =
       IF ~AcceptedOptions(line) THEN ended("wrong options")
       ELSE IF line = {} \/ "help" \in line THEN ended("help")
       ELSE IF StartUri(sh, line, typed) = NoUri THEN ended("no uri")
       ELSE IF Command(line) = "help" THEN ended("help")
       ELSE IF Dereferenced(Command(line)) \subseteq line
         THEN [ended("none") EXCEPT !.pc = "calling", !.uri = OverriddenUri(sh, line, typed)]
         ELSE ended("crash")]
  /\ UNCHANGED <<cp, env>>

-----------------------------------------------------------------------------
(* The commands: a call that is answered, then the line that prints a URI. *)
Calls(sh, command) == proc[sh].pc = "calling" /\ Command(proc[sh].line) = command

(* The token a call is made with is that of one kind, whatever kind the    *)
(* constructor of the URI took it for.  The control plane looks at the     *)
(* token itself.                                                           *)
Bearer(sh, kind) == proc[sh].uri.tokens[kind]

Ends(sh, uri, why, string) ==
  proc' = [proc EXCEPT ![sh] = [@ EXCEPT !.pc = "done", !.uri = uri, !.end = why,
                                         !.printed = string]]

Succeeds(sh) == Ends(sh, proc[sh].uri, "success", NoUri)
Refused(sh) == Ends(sh, proc[sh].uri, "refused", NoUri) /\ UNCHANGED cp

(* Mutated form: the URI is printed with its default token.                *)
reserveLBPrintsAdmin(sh) ==
  /\ Calls(sh, "reserve")
  /\ IF Bearer(sh, "ADMIN") = AdminToken
       THEN \E lb \in Reservations \ used :
              LET uri == [proc[sh].uri EXCEPT !.tokens["INSTANCE"] = InstanceToken(lb),
                                              !.lbid = lb] IN
              /\ reserved' = [reserved EXCEPT ![lb] = sh]
              /\ used' = used \cup {lb}
              /\ safe' = safe \cup {lb}
              /\ UNCHANGED workers
              /\ Ends(sh, uri, "success", toString(uri, "ADMIN"))
       ELSE Refused(sh)
  /\ UNCHANGED env

reserveLB(sh) ==
  /\ Calls(sh, "reserve")
  /\ IF Bearer(sh, "ADMIN") = AdminToken
       THEN \E lb \in Reservations \ used :
              LET uri == [proc[sh].uri EXCEPT !.tokens["INSTANCE"] = InstanceToken(lb),
                                              !.lbid = lb] IN
              /\ reserved' = [reserved EXCEPT ![lb] = sh]
              /\ used' = used \cup {lb}
              /\ safe' = safe \cup {lb}
              /\ UNCHANGED workers
              /\ Ends(sh, uri, "success", toString(uri, "INSTANCE"))
       ELSE Refused(sh)
  /\ UNCHANGED env

(* Mutated form: the ids change places.                                    *)
registerWorkerSwapped(sh) ==
  LET lb == proc[sh].uri.lbid IN
  /\ Calls(sh, "register")
  /\ lb # NoId /\ reserved[lb] # NoId
  /\ Bearer(sh, "INSTANCE") \in {InstanceToken(lb), AdminToken}
  /\ \E s \in Sessions \ used :
       LET uri == [proc[sh].uri EXCEPT !.tokens["SESSION"] = SessionToken(s), !.lbid = s,
                                       !.sessionId = lb] IN
       /\ workers' = [workers EXCEPT ![s] = lb]
       /\ used' = used \cup {s}
       /\ Ends(sh, uri, "success", toString(uri, "SESSION"))
  /\ UNCHANGED <<reserved, safe, env>>

registerWorker(sh) ==
  LET lb == proc[sh].uri.lbid
      shown == IF "export" \in proc[sh].line THEN "INSTANCE" ELSE "SESSION" IN
  /\ Calls(sh, "register")
  /\ IF /\ lb # NoId /\ reserved[lb] # NoId
        /\ Bearer(sh, "INSTANCE") \in {InstanceToken(lb), AdminToken}
       THEN \E s \in Sessions \ used :
              LET uri == [proc[sh].uri EXCEPT !.tokens["SESSION"] = SessionToken(s),
                                              !.sessionId = s] IN
              /\ workers' = [workers EXCEPT ![s] = lb]
              /\ used' = used \cup {s}
              /\ UNCHANGED <<reserved, safe>>
              /\ Ends(sh, uri, "success", toString(uri, shown))
       ELSE Refused(sh)
  /\ UNCHANGED env

(* A state update is accepted with the token of the session it is for.     *)
sendState(sh) ==
  LET s == proc[sh].uri.sessionId IN
  /\ Calls(sh, "state")
  /\ IF s # NoId /\ workers[s] # NoId /\ Bearer(sh, "SESSION") = SessionToken(s)
       THEN Succeeds(sh) /\ UNCHANGED cp
       ELSE Refused(sh)
  /\ UNCHANGED env

deregisterWorker(sh) ==
  LET s == proc[sh].uri.sessionId IN
  /\ Calls(sh, "deregister")
  /\ IF /\ s # NoId /\ workers[s] # NoId
        /\ Bearer(sh, "SESSION") \in {SessionToken(s), InstanceToken(workers[s])}
       THEN /\ workers' = [workers EXCEPT ![s] = NoId]
            /\ UNCHANGED <<reserved, safe, used>>
            /\ Succeeds(sh)
       ELSE Refused(sh)
  /\ UNCHANGED env

(* The reservation ends, and its workers and senders with it.              *)
Release(lb) ==
  /\ reserved' = [reserved EXCEPT ![lb] = NoId]
  /\ safe' = safe \ {lb}
  /\ workers' = [s \in Sessions |-> IF workers[s] = lb THEN NoId ELSE workers[s]]
  /\ UNCHANGED used

freeLB(sh) ==
  LET lb == proc[sh].uri.lbid IN
  /\ Calls(sh, "free")
  /\ IF /\ lb # NoId /\ reserved[lb] # NoId
        /\ Bearer(sh, "ADMIN") \in {AdminToken, InstanceToken(lb)}
       THEN Release(lb) /\ Succeeds(sh)
       ELSE Refused(sh)
  /\ UNCHANGED env

removeSenders(sh) ==
  LET lb == proc[sh].uri.lbid IN
  /\ Calls(sh, "removesenders")
  /\ IF lb # NoId /\ reserved[lb] # NoId /\ Bearer(sh, "INSTANCE") = InstanceToken(lb)
       THEN safe' = safe \ {lb} /\ UNCHANGED <<reserved, workers, used>> /\ Succeeds(sh)
       ELSE Refused(sh)
  /\ UNCHANGED env

(* version, status and overview change nothing.                            *)
getVersionStatusOrOverview(sh) ==
  /\ \E command \in {"version", "status", "overview"} : Calls(sh, command)
  /\ Succeeds(sh) \/ Ends(sh, proc[sh].uri, "refused", NoUri)
  /\ UNCHANGED <<cp, env>>

(* The control plane cannot be reached: "unable to connect".               *)
CallFails(sh) ==
  /\ proc[sh].pc = "calling"
  /\ Ends(sh, proc[sh].uri, "unreachable", NoUri)
  /\ UNCHANGED <<cp, env>>

-----------------------------------------------------------------------------
(* The user goes on: with the URI that was printed, which may be put into  *)
(* the environment of this shell or of another, or with the old one.       *)
NextPrompt(sh) ==
  /\ proc[sh].pc = "done"
  /\ proc' = [proc EXCEPT ![sh] = Prompt]
  /\ \/ UNCHANGED env
     \/ /\ proc[sh].printed # NoUri
        /\ \E other \in Shells : env' = [env EXCEPT ![other] = proc[sh].printed]
  /\ UNCHANGED cp

(* "you must use 'state' within 10 seconds or worker is deregistered", and *)
(* a reservation lasts for its duration.                                   *)
WorkerExpires(s) ==
  /\ workers[s] # NoId
  /\ workers' = [workers EXCEPT ![s] = NoId]
  /\ UNCHANGED <<reserved, safe, used, env, proc>>

ReservationExpires(lb) ==
  /\ reserved[lb] # NoId
  /\ Release(lb)
  /\ UNCHANGED <<env, proc>>

Next ==
  \/ \E sh \in Shells :
       \/ \E line \in CommandLines : \E typed \in Typed(line) : main(sh, line, typed)
       \/ reserveLB(sh) \/ registerWorker(sh) \/ sendState(sh) \/ deregisterWorker(sh)
       \/ freeLB(sh) \/ removeSenders(sh) \/ getVersionStatusOrOverview(sh)
       \/ CallFails(sh) \/ NextPrompt(sh)
  \/ \E s \in Sessions : WorkerExpires(s)
  \/ \E lb \in Reservations : ReservationExpires(lb)

Spec == Init /\ [][Next]_vars

-----------------------------------------------------------------------------
TypeOK ==
  /\ reserved \in [Reservations -> Shells \cup {NoId}]
  /\ safe \subseteq Reservations
  /\ workers \in [Sessions -> Reservations \cup {NoId}]
  /\ used \subseteq Reservations \cup Sessions
  /\ env \in [Shells -> UriString]
  /\ \A sh \in Shells :
       /\ proc[sh].pc \in {"prompt", "calling", "done"}
       /\ proc[sh].line \in CommandLines \cup {{}}
       /\ proc[sh].uri \in Uri
       /\ proc[sh].printed \in UriString

Ran(sh, command) == proc[sh].pc = "done" /\ Command(proc[sh].line) = command

(* The "updated URI" a run prints hands on what this very run was granted, *)
(* and no more: after reserve the instance token and id of a reservation   *)
(* that was made for it, never the administrator's token it was started    *)
(* with; after register (without --export) the token and id of a session   *)
(* of the load balancer it was started with, or told with --lbid.          *)
PrintedUriIsTheGrant ==
  \A sh \in Shells : LET out == proc[sh].printed IN
    /\ Ran(sh, "reserve") /\ proc[sh].end = "success" =>
         /\ out.token = InstanceToken(out.lbid)
         /\ reserved[out.lbid] \in {sh, NoId}
    /\ Ran(sh, "register") /\ proc[sh].end = "success" /\ "export" \notin proc[sh].line =>
         /\ out.token = SessionToken(out.sessionId)
         /\ workers[out.sessionId] \in {out.lbid, NoId}
    /\ proc[sh].end # "success" => out = NoUri

(* The address, port and name that reserveLB, registerWorker and           *)
(* removeSenders use without a null test are on every command line that    *)
(* reaches them: the option checks made at the start of main fit the       *)
(* branches taken at its end.                                              *)
NoMissingArgument == \A sh \in Shells : proc[sh].end # "crash"

(* A worker is not cut off: state updates made with the session URI that   *)
(* register printed, from the environment or with --uri, are refused only  *)
(* if its session is over, or --session says another one.  (The URI        *)
(* printed by --export is left out: see ExportedSessionCanSendState.)      *)
SessionUriIsAccepted ==
  \A sh \in Shells, s \in Sessions :
    (/\ Ran(sh, "state") /\ proc[sh].end = "refused"
     /\ "session" \in proc[sh].line => proc[sh].uri.sessionId = s
     /\ \E kind \in Token : proc[sh].uri.tokens[kind] = SessionToken(s))
      => workers[s] = NoId

(* Lbadm: "note you must use 'state' within 10 seconds or worker is        *)
(* deregistered", and "export EJFAT_URI=<the new uri>": with the URI that  *)
(* itself names its live session, a state update is not refused.           *)
ExportedSessionCanSendState ==
  \A sh \in Shells :
    LET s == proc[sh].uri.sessionId IN
    Ran(sh, "state") /\ proc[sh].end = "refused" /\ s # NoId /\ "session" \notin proc[sh].line
      => workers[s] = NoId
=============================================================================

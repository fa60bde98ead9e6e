---------------------------- MODULE Lbadm_proofs ----------------------------
(***************************************************************************)
(* Proofs about the command line tool, for any number of shells,           *)
(* reservations and sessions, and any command lines.                       *)
(*                                                                         *)
(* What a shell holds, in its environment, in a running process or as the  *)
(* line just printed, was granted earlier.  The properties need that the   *)
(* control plane never grants the same thing twice (used), and that a URI  *)
(* with the token of a session names that session unless --session has     *)
(* overridden it.                                                          *)
(***************************************************************************)
EXTENDS Lbadm, TLAPS

Endings == {"none", "help", "wrong options", "no uri", "crash", "success", "refused",
            "unreachable"}

Proc == [pc : {"prompt", "calling", "done"}, line : CommandLines \cup {{}}, uri : Uri,
         end : Endings, printed : UriString]

TypeInv ==
  /\ reserved \in [Reservations -> Shells \cup {NoId}]
  /\ safe \subseteq Reservations
  /\ workers \in [Sessions -> Reservations \cup {NoId}]
  /\ used \subseteq Reservations \cup Sessions
  /\ env \in [Shells -> UriString]
  /\ proc \in [Shells -> Proc]

(* A string with the token of a session names that session, which has been *)
(* handed out.                                                             *)
Names(string) ==
  \A s \in Sessions : string.token = SessionToken(s) => string.sessionId = s /\ s \in used

(* A process that has come to its call: what it works with is what it was  *)
(* started with, and the only token it has is of the kind the command asks *)
(* for.                                                                    *)
CallingInv(sh) ==
  proc[sh].pc = "calling" =>
    /\ AcceptedOptions(proc[sh].line)
    /\ Command(proc[sh].line) # "help"
    /\ \A kind \in Token, s \in Sessions :
         proc[sh].uri.tokens[kind] = SessionToken(s) =>
           /\ kind = TokenType(proc[sh].line)
           /\ s \in used
           /\ "session" \notin proc[sh].line => proc[sh].uri.sessionId = s

ReservedInv(sh) ==
  LET out == proc[sh].printed IN
  Ran(sh, "reserve") /\ proc[sh].end = "success" =>
    /\ out.lbid \in Reservations \cap used
    /\ out.token = InstanceToken(out.lbid)
    /\ reserved[out.lbid] \in {sh, NoId}

RegisteredInv(sh) ==
  LET out == proc[sh].printed IN
  Ran(sh, "register") /\ proc[sh].end = "success" /\ "export" \notin proc[sh].line =>
    /\ out.sessionId \in Sessions \cap used
    /\ out.token = SessionToken(out.sessionId)
    /\ workers[out.sessionId] \in {out.lbid, NoId}

(* A refused state update was for a session that had been handed out and   *)
(* is over.                                                                *)
RefusedInv(sh) ==
  \A s \in Sessions :
    (/\ Ran(sh, "state") /\ proc[sh].end = "refused"
     /\ "session" \in proc[sh].line => proc[sh].uri.sessionId = s
     /\ \E kind \in Token : proc[sh].uri.tokens[kind] = SessionToken(s))
      => s \in used /\ workers[s] = NoId

ShellInv(sh) ==
  /\ Names(env[sh])
  /\ Names(proc[sh].printed)
  /\ CallingInv(sh)
  /\ ReservedInv(sh)
  /\ RegisteredInv(sh)
  /\ RefusedInv(sh)
  /\ proc[sh].end # "success" => proc[sh].printed = NoUri
  /\ proc[sh].end # "crash"

IInv == TypeInv /\ \A sh \in Shells : ShellInv(sh)

-----------------------------------------------------------------------------
(* What is typed and what is granted.                                      *)

LEMMA TokenFacts ==
  /\ \A lb \in Reservations, s \in Sessions : InstanceToken(lb) # SessionToken(s)
  /\ \A s \in Sessions : SessionToken(s) # AdminToken /\ SessionToken(s) # NoToken
  /\ \A lb \in Reservations : InstanceToken(lb) # AdminToken /\ InstanceToken(lb) # NoToken
  /\ \A s, t \in Sessions : SessionToken(s) = SessionToken(t) => s = t
BY DEF InstanceToken, SessionToken, AdminToken, NoToken

LEMMA CommandIsTyped ==
  ASSUME NEW line, Command(line) # "help"
  PROVE  Command(line) \in Branches /\ Command(line) \in line
<1>1. \E c \in Branches : c \in line
  BY DEF Command
<1> QED
  BY <1>1 DEF Command

LEMMA StateUsesSessionToken ==
  ASSUME NEW line, AcceptedOptions(line), Command(line) = "state"
  PROVE  TokenType(line) = "SESSION"
<1>1. "state" \in line
  BY CommandIsTyped
<1>2. \A c \in Commands : c # "state" => c \notin line
  BY <1>1 DEF AcceptedOptions, conflictingOptions, Commands
<1>3. /\ line \cap {"reserve", "free", "status", "version"} = {}
      /\ line \cap {"register", "addsenders", "removesenders"} = {}
  BY <1>2 DEF Commands
<1> QED
  BY <1>1, <1>3 DEF TokenType

LEMMA NothingIsMissing ==
  ASSUME NEW line, AcceptedOptions(line), Command(line) # "help"
  PROVE  Dereferenced(Command(line)) \subseteq line
<1>1. Command(line) \in line
  BY CommandIsTyped
<1>2. CASE Command(line) \in {"reserve", "removesenders"}
  BY <1>1, <1>2 DEF AcceptedOptions, optionDependency, Dereferenced
<1>3. CASE Command(line) = "register"
  BY <1>1, <1>3 DEF AcceptedOptions, optionDependency, Dereferenced
<1>4. CASE Command(line) \notin {"reserve", "removesenders", "register"}
  BY <1>4 DEF Dereferenced
<1> QED
  BY <1>2, <1>3, <1>4

LEMMA NoUriIsAString == NoUri \in UriString
BY DEF NoUri, UriString

LEMMA ToStringType ==
  ASSUME NEW uri \in Uri, NEW kind \in Token
  PROVE  toString(uri, kind) \in UriString
BY DEF toString, Uri, UriString

LEMMA EjfatUriType ==
  ASSUME NEW string \in UriString, NEW tt
  PROVE  EjfatURI(string, tt) \in Uri
BY DEF EjfatURI, Uri, UriString

LEMMA PromptType == Prompt \in Proc
<1>1. EjfatURI(NoUri, "ADMIN") \in Uri
  BY NoUriIsAString, EjfatUriType
<1> QED
  BY <1>1, NoUriIsAString DEF Prompt, Proc, Endings

LEMMA InitInv == Init => IInv
<1> SUFFICES ASSUME Init PROVE IInv
  OBVIOUS
<1>1. [NoUri EXCEPT !.token = AdminToken] \in UriString
  BY DEF NoUri, UriString, Tokens
<1>2. PICK admin \in Shells :
        env = [sh \in Shells |-> IF sh = admin THEN [NoUri EXCEPT !.token = AdminToken]
                                              ELSE NoUri]
  BY DEF Init
<1>3. env \in [Shells -> UriString]
  BY <1>1, <1>2, NoUriIsAString
<1>4. proc \in [Shells -> Proc]
  BY PromptType DEF Init
<1>5. TypeInv
  BY <1>3, <1>4 DEF Init, TypeInv
<1>6. Names(NoUri) /\ Names([NoUri EXCEPT !.token = AdminToken])
  BY TokenFacts DEF Names, NoUri
<1>7. \A sh \in Shells : Names(env[sh])
  BY <1>2, <1>6
<1>8. \A sh \in Shells : proc[sh] = Prompt
  BY DEF Init
<1>9. \A sh \in Shells : ShellInv(sh)
  BY <1>6, <1>7, <1>8
  DEF ShellInv, CallingInv, ReservedInv, RegisteredInv, RefusedInv, Ran, Prompt
<1> QED
  BY <1>5, <1>9 DEF IInv

-----------------------------------------------------------------------------
(* A step of the control plane only adds to what was handed out, and takes *)
(* back what was granted without granting it to somebody else.             *)
Monotone ==
  /\ used \subseteq used'
  /\ \A lb \in Reservations \cap used : reserved'[lb] \in {reserved[lb], NoId}
  /\ \A s \in Sessions \cap used : workers'[s] \in {workers[s], NoId}

LEMMA OtherShell ==
  ASSUME IInv, Monotone, NEW sh \in Shells, proc'[sh] = proc[sh], Names(env[sh])'
  PROVE  ShellInv(sh)'
<1>1. used \subseteq used'
  BY DEF Monotone
<1>2. Names(proc[sh].printed)'
  BY <1>1 DEF IInv, ShellInv, Names
<1>3. CallingInv(sh)'
  BY <1>1 DEF IInv, ShellInv, CallingInv
<1>4. ReservedInv(sh)'
  <2> SUFFICES ASSUME Ran(sh, "reserve"), proc[sh].end = "success"
               PROVE  LET out == proc[sh].printed IN
                      /\ out.lbid \in Reservations \cap used'
                      /\ out.token = InstanceToken(out.lbid)
                      /\ reserved'[out.lbid] \in {sh, NoId}
    BY DEF ReservedInv, Ran
  <2> QED
    BY <1>1 DEF IInv, ShellInv, ReservedInv, Monotone
<1>5. RegisteredInv(sh)'
  <2> SUFFICES ASSUME Ran(sh, "register"), proc[sh].end = "success",
                      "export" \notin proc[sh].line
               PROVE  LET out == proc[sh].printed IN
                      /\ out.sessionId \in Sessions \cap used'
                      /\ out.token = SessionToken(out.sessionId)
                      /\ workers'[out.sessionId] \in {out.lbid, NoId}
    BY DEF RegisteredInv, Ran
  <2> QED
    BY <1>1 DEF IInv, ShellInv, RegisteredInv, Monotone
<1>6. RefusedInv(sh)'
  <2> SUFFICES ASSUME NEW s \in Sessions, Ran(sh, "state"), proc[sh].end = "refused",
                      "session" \in proc[sh].line => proc[sh].uri.sessionId = s,
                      \E kind \in Token : proc[sh].uri.tokens[kind] = SessionToken(s)
               PROVE  s \in used' /\ workers'[s] = NoId
    BY DEF RefusedInv, Ran
  <2> QED
    BY <1>1 DEF IInv, ShellInv, RefusedInv, Monotone
<1> QED
  BY <1>2, <1>3, <1>4, <1>5, <1>6 DEF IInv, ShellInv

(* The effect of Ends, from which the fields of the process can be read    *)
(* off without the EXCEPTs.                                                *)
LEMMA EndsEffect ==
  ASSUME TypeInv, NEW sh \in Shells, NEW uri \in Uri, NEW why \in Endings,
         NEW string \in UriString, Ends(sh, uri, why, string)
  PROVE  /\ proc' \in [Shells -> Proc]
         /\ \A o \in Shells : o # sh => proc'[o] = proc[o]
         /\ proc'[sh].pc = "done" /\ proc'[sh].line = proc[sh].line
         /\ proc'[sh].uri = uri /\ proc'[sh].end = why /\ proc'[sh].printed = string
<1> DEFINE p == [proc[sh] EXCEPT !.pc = "done", !.uri = uri, !.end = why, !.printed = string]
<1>1. proc' = [proc EXCEPT ![sh] = p]
  BY DEF Ends
<1>2. proc[sh] \in Proc
  BY DEF TypeInv
<1>3. /\ p \in Proc
      /\ p.pc = "done" /\ p.line = proc[sh].line /\ p.uri = uri /\ p.end = why
      /\ p.printed = string
  BY <1>2 DEF Proc
<1> HIDE DEF p
<1> QED
  BY <1>1, <1>3 DEF TypeInv

CpType ==
  /\ reserved \in [Reservations -> Shells \cup {NoId}]
  /\ safe \subseteq Reservations
  /\ workers \in [Sessions -> Reservations \cup {NoId}]
  /\ used \subseteq Reservations \cup Sessions

LEMMA CpStays ==
  ASSUME IInv, UNCHANGED cp
  PROVE  CpType' /\ Monotone
BY DEF IInv, TypeInv, CpType, Monotone, cp

(* Calls that are answered without granting anything.                      *)
LEMMA SilentEnd ==
  ASSUME IInv, CpType', Monotone, env' = env, NEW sh \in Shells, proc[sh].pc = "calling",
         NEW why \in Endings, why # "crash", Ends(sh, proc[sh].uri, why, NoUri),
         Command(proc[sh].line) \in {"reserve", "register"} => why # "success",
         Command(proc[sh].line) = "state" /\ why = "refused" =>
           \A s \in Sessions :
             (/\ "session" \in proc[sh].line => proc[sh].uri.sessionId = s
              /\ \E kind \in Token : proc[sh].uri.tokens[kind] = SessionToken(s))
               => s \in used /\ workers[s] = NoId
  PROVE  IInv'
<1>1. proc[sh].uri \in Uri
  BY DEF IInv, TypeInv, Proc
<1>2. /\ proc' \in [Shells -> Proc]
      /\ \A o \in Shells : o # sh => proc'[o] = proc[o]
      /\ proc'[sh].pc = "done" /\ proc'[sh].line = proc[sh].line
      /\ proc'[sh].uri = proc[sh].uri /\ proc'[sh].end = why /\ proc'[sh].printed = NoUri
  BY <1>1, EndsEffect, NoUriIsAString DEF IInv
<1>3. TypeInv'
  BY <1>2 DEF IInv, TypeInv, CpType
<1>4. \A o \in Shells : Names(env[o])'
  BY DEF IInv, ShellInv, Names, Monotone
<1>5. \A o \in Shells : o # sh => ShellInv(o)'
  BY <1>2, <1>4, OtherShell
<1>6. ShellInv(sh)'
  <2>1. Names(NoUri)'
    BY TokenFacts DEF Names, NoUri
  <2>2. Names(proc[sh].printed)'
    BY <1>2, <2>1 DEF Names
  <2>3. CallingInv(sh)'
    BY <1>2 DEF CallingInv
  <2>4. ReservedInv(sh)' /\ RegisteredInv(sh)'
    BY <1>2 DEF ReservedInv, RegisteredInv, Ran
  <2>5. RefusedInv(sh)'
    BY <1>2 DEF RefusedInv, Ran, Monotone
  <2> QED
    BY <1>2, <1>4, <2>2, <2>3, <2>4, <2>5 DEF ShellInv
<1> QED
  BY <1>3, <1>5, <1>6 DEF IInv

(* Steps of the control plane alone.                                       *)
LEMMA CpStep ==
  ASSUME IInv, CpType', Monotone, UNCHANGED <<env, proc>>
  PROVE  IInv'
<1>1. TypeInv'
  BY DEF IInv, TypeInv, CpType
<1>2. \A sh \in Shells : Names(env[sh])'
  BY DEF IInv, ShellInv, Names, Monotone
<1>3. \A sh \in Shells : ShellInv(sh)'
  BY <1>2, OtherShell
<1> QED
  BY <1>1, <1>3 DEF IInv

LEMMA ReleaseEffect ==
  ASSUME IInv, NEW lb \in Reservations, Release(lb)
  PROVE  CpType' /\ Monotone
<1>1. CpType'
  BY DEF IInv, TypeInv, CpType, Release
<1>2. Monotone
  BY DEF IInv, TypeInv, Monotone, Release
<1> QED
  BY <1>1, <1>2

-----------------------------------------------------------------------------
(* The commands.                                                           *)

LEMMA SendStateInv ==
  ASSUME IInv, NEW sh \in Shells, sendState(sh)
  PROVE  IInv'
<1>1. /\ proc[sh].pc = "calling" /\ Command(proc[sh].line) = "state"
      /\ UNCHANGED cp /\ env' = env
  BY DEF sendState, Calls, Succeeds, Refused
<1>2. CpType' /\ Monotone
  BY <1>1, CpStays
<1>3. CASE Succeeds(sh)
  BY <1>1, <1>2, <1>3, SilentEnd DEF Succeeds, Endings
<1>4. CASE ~Succeeds(sh)
  <2> DEFINE id == proc[sh].uri.sessionId
  <2>1. /\ ~(id # NoId /\ workers[id] # NoId /\ Bearer(sh, "SESSION") = SessionToken(id))
        /\ Ends(sh, proc[sh].uri, "refused", NoUri)
    BY <1>4 DEF sendState, Refused
  <2>2. TokenType(proc[sh].line) = "SESSION"
    BY <1>1, StateUsesSessionToken DEF IInv, ShellInv, CallingInv
  <2>3. ASSUME NEW s \in Sessions,
               "session" \in proc[sh].line => proc[sh].uri.sessionId = s,
               NEW kind \in Token, proc[sh].uri.tokens[kind] = SessionToken(s)
        PROVE  s \in used /\ workers[s] = NoId
    <3>1. s \in used /\ kind = "SESSION" /\ id = s
      BY <1>1, <2>2, <2>3 DEF IInv, ShellInv, CallingInv
    <3>2. s # NoId
      BY IdAssumption
    <3> QED
      BY <2>1, <2>3, <3>1, <3>2 DEF Bearer
  <2> QED
    BY <1>1, <1>2, <2>1, <2>3, SilentEnd DEF Endings
<1> QED
  BY <1>3, <1>4

LEMMA OtherCallsInv ==
  ASSUME IInv, NEW sh \in Shells,
         \/ deregisterWorker(sh) \/ freeLB(sh) \/ removeSenders(sh)
         \/ getVersionStatusOrOverview(sh) \/ CallFails(sh)
  PROVE  IInv'
<1>u. proc[sh].uri \in Uri
  BY DEF IInv, TypeInv, Proc
<1>1. ASSUME proc[sh].pc = "calling",
             Command(proc[sh].line) \notin {"reserve", "register", "state"},
             env' = env, CpType', Monotone, NEW why \in {"success", "refused"},
             Ends(sh, proc[sh].uri, why, NoUri)
      PROVE  IInv'
  BY <1>1, SilentEnd DEF Endings
<1>2. CASE deregisterWorker(sh)
  <2>1. CASE Refused(sh)
    BY <1>1, <1>2, <2>1, CpStays DEF deregisterWorker, Calls, Refused
  <2>2. CASE ~Refused(sh)
    <3> DEFINE s == proc[sh].uri.sessionId
    <3>1. /\ s # NoId /\ workers' = [workers EXCEPT ![s] = NoId]
          /\ UNCHANGED <<reserved, safe, used>>
      BY <1>2, <2>2 DEF deregisterWorker
    <3>2. s \in Sessions
      BY <1>u, <3>1 DEF Uri
    <3>3. CpType' /\ Monotone
      BY <3>1, <3>2 DEF IInv, TypeInv, CpType, Monotone
    <3> QED
      BY <1>1, <1>2, <2>2, <3>3 DEF deregisterWorker, Calls, Succeeds
  <2> QED
    BY <2>1, <2>2
<1>3. CASE freeLB(sh)
  <2>1. CASE Refused(sh)
    BY <1>1, <1>3, <2>1, CpStays DEF freeLB, Calls, Refused
  <2>2. CASE ~Refused(sh)
    <3>1. proc[sh].uri.lbid # NoId /\ Release(proc[sh].uri.lbid) /\ Succeeds(sh)
      BY <1>3, <2>2 DEF freeLB
    <3>2. proc[sh].uri.lbid \in Reservations
      BY <1>u, <3>1 DEF Uri
    <3>3. CpType' /\ Monotone
      BY <3>1, <3>2, ReleaseEffect
    <3> QED
      BY <1>1, <1>3, <3>1, <3>3 DEF freeLB, Calls, Succeeds
  <2> QED
    BY <2>1, <2>2
<1>4. CASE removeSenders(sh)
  <2>1. CASE Refused(sh)
    BY <1>1, <1>4, <2>1, CpStays DEF removeSenders, Calls, Refused
  <2>2. CASE ~Refused(sh)
    <3>1. /\ safe' = safe \ {proc[sh].uri.lbid} /\ UNCHANGED <<reserved, workers, used>>
          /\ Succeeds(sh)
      BY <1>4, <2>2 DEF removeSenders
    <3>2. CpType' /\ Monotone
      BY <3>1 DEF IInv, TypeInv, CpType, Monotone
    <3> QED
      BY <1>1, <1>4, <3>1, <3>2 DEF removeSenders, Calls, Succeeds
  <2> QED
    BY <2>1, <2>2
<1>5. CASE getVersionStatusOrOverview(sh)
  BY <1>1, <1>5, CpStays DEF getVersionStatusOrOverview, Calls, Succeeds
<1>6. CASE CallFails(sh)
  BY <1>6, CpStays, SilentEnd DEF CallFails, Endings
<1> QED
  BY <1>2, <1>3, <1>4, <1>5, <1>6

(* Calls that are granted something: the new token and id go into the URI, *)
(* and the URI that is printed has one of its tokens.                      *)
LEMMA GrantEnd ==
  ASSUME IInv, CpType', Monotone, env' = env, NEW sh \in Shells,
         NEW uri \in Uri, NEW shown \in Token, Ends(sh, uri, "success", toString(uri, shown)),
         Names(toString(uri, shown))',
         ReservedInv(sh)', RegisteredInv(sh)'
  PROVE  IInv'
<1> DEFINE string == toString(uri, shown)
<1>1. string \in UriString
  BY ToStringType
<1> HIDE DEF string
<1>2. /\ proc' \in [Shells -> Proc]
      /\ \A o \in Shells : o # sh => proc'[o] = proc[o]
      /\ proc'[sh].pc = "done" /\ proc'[sh].line = proc[sh].line
      /\ proc'[sh].uri = uri /\ proc'[sh].end = "success" /\ proc'[sh].printed = string
  BY <1>1, EndsEffect DEF IInv, Endings, string
<1>3. TypeInv'
  BY <1>2 DEF IInv, TypeInv, CpType
<1>4. \A o \in Shells : Names(env[o])'
  BY DEF IInv, ShellInv, Names, Monotone
<1>5. \A o \in Shells : o # sh => ShellInv(o)'
  BY <1>2, <1>4, OtherShell
<1>6. ShellInv(sh)'
  <2>1. Names(proc[sh].printed)'
    BY <1>2 DEF Names, string
  <2>2. CallingInv(sh)' /\ RefusedInv(sh)'
    BY <1>2 DEF CallingInv, RefusedInv, Ran
  <2> QED
    BY <1>2, <1>4, <2>1, <2>2 DEF ShellInv
<1> QED
  BY <1>3, <1>5, <1>6 DEF IInv

LEMMA ReserveInv ==
  ASSUME IInv, NEW sh \in Shells, reserveLB(sh)
  PROVE  IInv'
<1>1. /\ proc[sh].pc = "calling" /\ Command(proc[sh].line) = "reserve" /\ env' = env
      /\ proc[sh].uri \in Uri
  BY DEF IInv, TypeInv, Proc, reserveLB, Calls
<1>2. CASE Refused(sh)
  BY <1>1, <1>2, CpStays, SilentEnd DEF Refused, Endings
<1>3. CASE ~Refused(sh)
  <2> DEFINE Granted(lb) == [proc[sh].uri EXCEPT !.tokens["INSTANCE"] = InstanceToken(lb),
                                                 !.lbid = lb]
  <2>1. PICK lb \in Reservations \ used :
          /\ reserved' = [reserved EXCEPT ![lb] = sh]
          /\ used' = used \cup {lb} /\ safe' = safe \cup {lb} /\ UNCHANGED workers
          /\ Ends(sh, Granted(lb), "success", toString(Granted(lb), "INSTANCE"))
    BY <1>3 DEF reserveLB
  <2>2. CpType' /\ Monotone
    BY <2>1 DEF IInv, TypeInv, CpType, Monotone
  <2>g. /\ Granted(lb) \in Uri /\ Granted(lb).lbid = lb
        /\ Granted(lb).tokens["INSTANCE"] = InstanceToken(lb)
    BY <1>1 DEF Uri, Token, Tokens
  <2>u. PICK uri \in Uri : uri = Granted(lb)
    BY <2>g
  <2>3. uri \in Uri /\ uri.tokens["INSTANCE"] = InstanceToken(lb) /\ uri.lbid = lb
    BY <2>g, <2>u
  <2>4. toString(uri, "INSTANCE").token = InstanceToken(lb) /\ toString(uri, "INSTANCE").lbid = lb
    BY <2>3 DEF toString
  <2>5. Ends(sh, uri, "success", toString(uri, "INSTANCE"))
    BY <2>1, <2>u
  <2>6. proc'[sh].printed = toString(uri, "INSTANCE") /\ proc'[sh].line = proc[sh].line
    <3>1. toString(uri, "INSTANCE") \in UriString
      BY <2>3, ToStringType DEF Token
    <3>2. "success" \in Endings /\ TypeInv
      BY DEF Endings, IInv
    <3> QED
      BY <2>3, <2>5, <3>1, <3>2, EndsEffect
  <2>7. Names(toString(uri, "INSTANCE"))'
    BY <2>4, TokenFacts DEF Names
  <2>8. ReservedInv(sh)'
    BY <2>1, <2>4, <2>6 DEF ReservedInv, IInv, TypeInv
  <2>9. RegisteredInv(sh)'
    BY <1>1, <2>6 DEF RegisteredInv, Ran
  <2> QED
    BY <1>1, <2>2, <2>3, <2>5, <2>7, <2>8, <2>9, GrantEnd DEF Token
<1> QED
  BY <1>2, <1>3

LEMMA RegisterInv ==
  ASSUME IInv, NEW sh \in Shells, registerWorker(sh)
  PROVE  IInv'
<1>l. PICK lb : lb = proc[sh].uri.lbid
  OBVIOUS
<1>k. PICK shown \in Token :
        shown = IF "export" \in proc[sh].line THEN "INSTANCE" ELSE "SESSION"
  BY DEF Token
<1>1. /\ proc[sh].pc = "calling" /\ Command(proc[sh].line) = "register" /\ env' = env
      /\ proc[sh].uri \in Uri
  BY DEF IInv, TypeInv, Proc, registerWorker, Calls
<1>2. CASE Refused(sh)
  BY <1>1, <1>2, CpStays, SilentEnd DEF Refused, Endings
<1>3. CASE ~Refused(sh)
  <2> DEFINE Granted(s) == [proc[sh].uri EXCEPT !.tokens["SESSION"] = SessionToken(s),
                                                !.sessionId = s]
  <2>1. /\ lb # NoId /\ reserved[lb] # NoId
        /\ Bearer(sh, "INSTANCE") \in {InstanceToken(lb), AdminToken}
        /\ \E s \in Sessions \ used :
             /\ workers' = [workers EXCEPT ![s] = lb]
             /\ used' = used \cup {s} /\ UNCHANGED <<reserved, safe>>
             /\ Ends(sh, Granted(s), "success", toString(Granted(s), shown))
    BY <1>l, <1>k, <1>3 DEF registerWorker
  <2>2. PICK s \in Sessions \ used :
          /\ workers' = [workers EXCEPT ![s] = lb]
          /\ used' = used \cup {s} /\ UNCHANGED <<reserved, safe>>
          /\ Ends(sh, Granted(s), "success", toString(Granted(s), shown))
    BY <2>1
  <2>3. lb \in Reservations
    BY <1>l, <1>1, <2>1 DEF Uri
  <2>4. CpType' /\ Monotone
    BY <2>2, <2>3 DEF IInv, TypeInv, CpType, Monotone
  <2>g. /\ Granted(s) \in Uri /\ Granted(s).sessionId = s /\ Granted(s).lbid = lb
        /\ Granted(s).tokens["SESSION"] = SessionToken(s)
        /\ Granted(s).tokens["INSTANCE"] \in {InstanceToken(lb), AdminToken}
    BY <1>l, <1>1, <2>1 DEF Uri, Token, Tokens, Bearer
  <2>u. PICK uri \in Uri : uri = Granted(s)
    BY <2>g
  <2>5. /\ uri \in Uri /\ uri.sessionId = s /\ uri.lbid = lb
        /\ uri.tokens["SESSION"] = SessionToken(s)
        /\ uri.tokens["INSTANCE"] \in {InstanceToken(lb), AdminToken}
    BY <2>g, <2>u
  <2>6. Ends(sh, uri, "success", toString(uri, shown)) /\ shown \in Token
    BY <1>k, <2>2, <2>u
  <2>7. proc'[sh].printed = toString(uri, shown) /\ proc'[sh].line = proc[sh].line
    <3>1. toString(uri, shown) \in UriString
      BY <2>5, <2>6, ToStringType
    <3>2. "success" \in Endings /\ TypeInv
      BY DEF Endings, IInv
    <3> QED
      BY <2>5, <2>6, <3>1, <3>2, EndsEffect
  <2>8. /\ toString(uri, shown).token = uri.tokens[shown]
        /\ toString(uri, shown).lbid = lb /\ toString(uri, shown).sessionId = s
    BY <2>5 DEF toString
  <2>9. Names(toString(uri, shown))'
    <3>1. s \in used'
      BY <2>2
    <3>2. ASSUME NEW other \in Sessions, uri.tokens[shown] = SessionToken(other)
          PROVE  other = s
      BY <1>k, <2>3, <2>5, <3>2, TokenFacts
    <3> QED
      BY <2>8, <3>1, <3>2 DEF Names
  <2>10. ReservedInv(sh)'
    BY <1>1, <2>7 DEF ReservedInv, Ran
  <2>11. RegisteredInv(sh)'
    BY <1>k, <2>2, <2>5, <2>7, <2>8 DEF RegisteredInv, IInv, TypeInv
  <2> QED
    BY <1>1, <2>4, <2>5, <2>6, <2>9, <2>10, <2>11, GrantEnd
<1> QED
  BY <1>2, <1>3

LEMMA MainInv ==
  ASSUME IInv, NEW sh \in Shells, NEW line \in CommandLines, NEW typed \in Typed(line),
         main(sh, line, typed)
  PROVE  IInv'
<1> DEFINE start == StartUri(sh, line, typed)
           uri == OverriddenUri(sh, line, typed)
           ended(why) == [Prompt EXCEPT !.pc = "done", !.line = line, !.end = why]
<1>1. start \in UriString /\ Names(start)
  <2>1. env[sh] \in UriString /\ Names(env[sh])
    BY DEF IInv, TypeInv, ShellInv
  <2>2. ASSUME "uri" \in line PROVE \E o \in Shells : typed.uri = env[o]
    BY <2>2 DEF Typed
  <2> QED
    BY <2>1, <2>2 DEF StartUri, IInv, TypeInv, ShellInv
<1>2. CpType' /\ Monotone /\ env' = env
  BY CpStays DEF main
<1>3. \A o \in Shells : Names(env[o])'
  BY <1>2 DEF IInv, ShellInv, Names, Monotone
<1>4. Names(NoUri)'
  BY TokenFacts DEF Names, NoUri
<1>5. ASSUME NEW p \in Proc, proc' = [proc EXCEPT ![sh] = p],
             p.printed = NoUri, p.end \notin {"success", "refused", "crash"}, CallingInv(sh)'
      PROVE  IInv'
  <2>1. TypeInv'
    BY <1>2, <1>5 DEF IInv, TypeInv, CpType
  <2>2. proc'[sh] = p /\ \A o \in Shells : o # sh => proc'[o] = proc[o]
    BY <1>5 DEF IInv, TypeInv
  <2>3. \A o \in Shells : o # sh => ShellInv(o)'
    BY <1>2, <1>3, <2>2, OtherShell
  <2>4. Names(proc[sh].printed)'
    BY <1>4, <1>5, <2>2 DEF Names
  <2>5. ReservedInv(sh)' /\ RegisteredInv(sh)' /\ RefusedInv(sh)'
    BY <1>5, <2>2 DEF ReservedInv, RegisteredInv, RefusedInv
  <2>6. ShellInv(sh)'
    BY <1>3, <1>5, <2>2, <2>4, <2>5 DEF ShellInv
  <2> QED
    BY <2>1, <2>3, <2>6 DEF IInv
<1>6. ASSUME NEW why \in {"wrong options", "help", "no uri"},
             proc' = [proc EXCEPT ![sh] = ended(why)]
      PROVE  IInv'
  <2>1. /\ ended(why) \in Proc /\ ended(why).pc = "done" /\ ended(why).end = why
        /\ ended(why).printed = NoUri
    BY PromptType DEF Prompt, Proc, Endings
  <2> HIDE DEF ended
  <2>2. proc'[sh].pc = "done"
    BY <1>6, <2>1 DEF IInv, TypeInv
  <2>3. CallingInv(sh)'
    BY <2>2 DEF CallingInv
  <2> QED
    BY <1>5, <1>6, <2>1, <2>3
<1>7. ASSUME AcceptedOptions(line), Command(line) # "help",
             proc' = [proc EXCEPT ![sh] = [ended("none") EXCEPT !.pc = "calling", !.uri = uri]]
      PROVE  IInv'
  <2> DEFINE p == [ended("none") EXCEPT !.pc = "calling", !.uri = uri]
  <2>1. /\ uri \in Uri
        /\ uri.tokens = EjfatURI(start, TokenType(line)).tokens
        /\ "session" \notin line => uri.sessionId = start.sessionId
    <3>1. EjfatURI(start, TokenType(line)) \in Uri
      BY <1>1, EjfatUriType
    <3>2. /\ "session" \in line => typed.session \in Sessions
          /\ "lbid" \in line => typed.lbid \in Reservations
      BY DEF Typed
    <3> QED
      BY <3>1, <3>2 DEF OverriddenUri, EjfatURI, Uri
  <2> HIDE DEF uri, start
  <2>2. /\ p \in Proc /\ p.pc = "calling" /\ p.line = line /\ p.uri = uri /\ p.end = "none"
        /\ p.printed = NoUri
    BY <2>1, PromptType DEF Prompt, Proc, Endings
  <2> HIDE DEF p
  <2>3. proc' = [proc EXCEPT ![sh] = p] /\ proc'[sh] = p
    BY <1>7 DEF p, IInv, TypeInv
  <2>4. ASSUME NEW kind \in Token, NEW s \in Sessions, uri.tokens[kind] = SessionToken(s)
        PROVE  kind = TokenType(line) /\ s \in used
                 /\ ("session" \notin line => uri.sessionId = s)
    <3>1. uri.tokens[kind] = IF kind = TokenType(line) THEN start.token ELSE NoToken
      BY <2>1 DEF EjfatURI
    <3>2. kind = TokenType(line) /\ start.token = SessionToken(s)
      BY <2>4, <3>1, TokenFacts
    <3> QED
      BY <1>1, <2>1, <3>2 DEF Names
  <2>5. CallingInv(sh)'
    BY <1>2, <1>7, <2>2, <2>3, <2>4 DEF CallingInv, Monotone
  <2> QED
    BY <1>5, <2>2, <2>3, <2>5
<1>8. CASE ~AcceptedOptions(line)
  BY <1>6, <1>8 DEF main
<1>9. CASE /\ AcceptedOptions(line)
           /\ line = {} \/ "help" \in line \/ start = NoUri \/ Command(line) = "help"
  BY <1>6, <1>9 DEF main
<1>10. CASE /\ AcceptedOptions(line)
            /\ ~(line = {} \/ "help" \in line \/ start = NoUri \/ Command(line) = "help")
  BY <1>7, <1>10, NothingIsMissing DEF main
<1> QED
  BY <1>8, <1>9, <1>10

LEMMA NextPromptInv ==
  ASSUME IInv, NEW sh \in Shells, NextPrompt(sh)
  PROVE  IInv'
<1>1. UNCHANGED cp /\ proc' = [proc EXCEPT ![sh] = Prompt]
  BY DEF NextPrompt
<1>2. CpType' /\ Monotone
  BY <1>1, CpStays
<1>3. proc'[sh] = Prompt /\ \A o \in Shells : o # sh => proc'[o] = proc[o]
  BY <1>1 DEF IInv, TypeInv
<1>4. \A o \in Shells : env'[o] \in {env[o], proc[sh].printed}
  BY DEF NextPrompt, IInv, TypeInv
<1>5. env' \in [Shells -> UriString]
  BY DEF NextPrompt, IInv, TypeInv, Proc
<1>6. TypeInv'
  BY <1>1, <1>2, <1>5, PromptType DEF IInv, TypeInv, CpType
<1>7. \A o \in Shells : Names(env[o])'
  BY <1>2, <1>4 DEF IInv, ShellInv, Names, Monotone
<1>8. \A o \in Shells : o # sh => ShellInv(o)'
  BY <1>2, <1>3, <1>7, OtherShell
<1>9. Names(NoUri)'
  BY TokenFacts DEF Names, NoUri
<1>10. /\ proc'[sh].pc = "prompt" /\ proc'[sh].end = "none" /\ proc'[sh].printed = NoUri
  BY <1>3 DEF Prompt
<1>11. Names(proc[sh].printed)'
  BY <1>9, <1>10 DEF Names
<1>12. ShellInv(sh)'
  BY <1>7, <1>10, <1>11
  DEF ShellInv, CallingInv, ReservedInv, RegisteredInv, RefusedInv, Ran
<1> QED
  BY <1>6, <1>8, <1>12 DEF IInv

LEMMA ExpiryInv ==
  ASSUME IInv, \/ \E s \in Sessions : WorkerExpires(s)
               \/ \E lb \in Reservations : ReservationExpires(lb)
  PROVE  IInv'
<1>1. CASE \E s \in Sessions : WorkerExpires(s)
  <2>1. CpType' /\ Monotone
    BY <1>1 DEF WorkerExpires, IInv, TypeInv, CpType, Monotone
  <2> QED
    BY <1>1, <2>1, CpStep DEF WorkerExpires
<1>2. CASE \E lb \in Reservations : ReservationExpires(lb)
  BY <1>2, ReleaseEffect, CpStep DEF ReservationExpires
<1> QED
  BY <1>1, <1>2

LEMMA NextInv == IInv /\ [Next]_vars => IInv'
<1> SUFFICES ASSUME IInv, [Next]_vars PROVE IInv'
  OBVIOUS
<1>1. CASE UNCHANGED vars
  BY <1>1, CpStays, CpStep DEF vars, cp
<1>2. ASSUME NEW sh \in Shells, NEW line \in CommandLines, NEW typed \in Typed(line),
             main(sh, line, typed)
      PROVE  IInv'
  BY <1>2, MainInv
<1>3. ASSUME NEW sh \in Shells, reserveLB(sh) \/ registerWorker(sh) \/ sendState(sh)
      PROVE  IInv'
  BY <1>3, ReserveInv, RegisterInv, SendStateInv
<1>4. ASSUME NEW sh \in Shells,
             \/ deregisterWorker(sh) \/ freeLB(sh) \/ removeSenders(sh)
             \/ getVersionStatusOrOverview(sh) \/ CallFails(sh)
      PROVE  IInv'
  BY <1>4, OtherCallsInv
<1>5. ASSUME NEW sh \in Shells, NextPrompt(sh)
      PROVE  IInv'
  BY <1>5, NextPromptInv
<1> QED
  BY <1>1, <1>2, <1>3, <1>4, <1>5, ExpiryInv DEF Next

-----------------------------------------------------------------------------
(* What a shell holds was granted, for any number of shells, reservations  *)
(* and sessions, and any command lines.                                    *)
THEOREM InvariantHolds == Spec => []IInv
BY InitInv, NextInv, PTL DEF Spec

(* The state of shells and control plane is well typed.                    *)
THEOREM TypeCorrect == Spec => []TypeOK
<1>1. IInv => TypeOK
  BY DEF IInv, TypeInv, TypeOK, Proc
<1> QED
  BY <1>1, InvariantHolds, PTL

(* The URI that reserve or register prints is the grant of this very run.  *)
THEOREM PrintedUriCorrect == Spec => []PrintedUriIsTheGrant
<1>1. IInv => PrintedUriIsTheGrant
  BY DEF IInv, ShellInv, ReservedInv, RegisteredInv, PrintedUriIsTheGrant
<1> QED
  BY <1>1, InvariantHolds, PTL

(* The option checks at the start of main fit the branches at its end, for *)
(* any set of options.                                                     *)
THEOREM NoCrash == Spec => []NoMissingArgument
<1>1. IInv => NoMissingArgument
  BY DEF IInv, ShellInv, NoMissingArgument
<1> QED
  BY <1>1, InvariantHolds, PTL

(* A state update with the URI of a live session is not refused.           *)
THEOREM SessionsStay == Spec => []SessionUriIsAccepted
<1>1. IInv => SessionUriIsAccepted
  BY DEF IInv, ShellInv, RefusedInv, SessionUriIsAccepted
<1> QED
  BY <1>1, InvariantHolds, PTL
=============================================================================

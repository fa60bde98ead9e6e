----------------------------- MODULE UriTokens -----------------------------
(***************************************************************************)
(* The part of an EJFAT URI that decides who may do what: a token of each  *)
(* of the three kinds of EjfatURI.Token, the load balancer id and the      *)
(* session id.  A URI string carries one token, and does not say of which  *)
(* kind it is: that is an argument of the EjfatURI constructor.            *)
(***************************************************************************)
CONSTANTS
  Reservations,  \* load balancer reservations the control plane can make
  Sessions       \* worker sessions it can open

Token == {"ADMIN", "INSTANCE", "SESSION"}

(* The tokens themselves: of the administrator, of a reservation, of a     *)
(* worker's session.                                                       *)
NoToken == <<>>
AdminToken == <<"admin">>
InstanceToken(lb) == <<"instance", lb>>
SessionToken(s) == <<"session", s>>

Tokens == {AdminToken} \cup {InstanceToken(lb) : lb \in Reservations}
                       \cup {SessionToken(s) : s \in Sessions}

NoId == "noId"

ASSUME IdAssumption == NoId \notin Reservations \cup Sessions

UriString == [token : Tokens \cup {NoToken}, lbid : Reservations \cup {NoId},
              sessionId : Sessions \cup {NoId}]

Uri == [tokens : [Token -> Tokens \cup {NoToken}], lbid : Reservations \cup {NoId},
        sessionId : Sessions \cup {NoId}]

(* new EjfatURI(uri, token, preferv6): the string's token is taken for one *)
(* of the kind given.                                                      *)
EjfatURI(string, tt) ==
  [tokens |-> [kind \in Token |-> IF kind = tt THEN string.token ELSE NoToken],
   lbid |-> string.lbid, sessionId |-> string.sessionId]

(* toString(token): the string with the token of the kind asked for.       *)
toString(uri, tt) ==
  [token |-> uri.tokens[tt], lbid |-> uri.lbid, sessionId |-> uri.sessionId]
=============================================================================

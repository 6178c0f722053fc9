-------------------------------- MODULE Url ----------------------------------
(***************************************************************************)
(* class rurl (rurl.h): an object that is given one URL after another, and  *)
(* whose whole_url() may be parsed again.                                   *)
(***************************************************************************)
EXTENDS Text

CONSTANTS
  Urls,       \* the URLs given: records [https, host, port, path], where
              \* port is a number or NoPort and path may be empty
  NoPort,
  MaxPath     \* bound: the length of a path that is parsed again

(* What a TCP port can be.                                                  *)
Ports == 0..65535

ASSUME PortAssumption == NoPort \notin Int

(* A host has no slash and no colon in it; a path, if there is one, begins  *)
(* with its slash.                                                          *)
ASSUME UrlAssumption ==
  \A u \in Urls :
    /\ u.https \in BOOLEAN /\ u.port \in Ports \cup {NoPort}
    /\ u.host \in Seq(Pieces) /\ u.path \in Seq(Pieces)
    /\ \A k \in DOMAIN u.host : u.host[k] \notin {Piece("/"), Piece(":")}
    /\ u.path # <<>> => u.path[1] = Piece("/")

(* The text of a URL.                                                       *)
UrlText(u) ==
  (IF u.https THEN https ELSE http) \o u.host \o
  (IF u.port = NoPort THEN <<>> ELSE <<Piece(":"), Num(u.port)>>) \o u.path

VARIABLES
  ms_host, ms_path,
  msh_port,    \* a short; NoPort until something is assigned to it
  given        \* history: the URL the object stands for

urlVars == <<ms_host, ms_path, msh_port, given>>

Nowhere == [https |-> FALSE, host |-> <<>>, port |-> 0, path |-> <<>>]

(* rurl(): the port is left as it is.                                       *)
UrlInit ==
  /\ ms_host = <<>> /\ ms_path = <<>>
  /\ msh_port = NoPort
  /\ given = [Nowhere EXCEPT !.port = NoPort]

Clear ==
  /\ ms_host' = <<>> /\ ms_path' = <<>>
  /\ msh_port' = 0
  /\ given' = Nowhere

(* The assignment of an int to the short.                                   *)
ToShort(n) == ((n + 32768) % 65536) - 32768

(* Mutant: port() returns the short as it is.                               *)
Signed(n) == n

(* port() returns it as an unsigned short.                                  *)
ToUnsigned(n) == n % 65536

(* atoi()                                                                   *)
Atoi(s) == IF s # <<>> /\ s[1] = Num(s[1][2]) THEN s[1][2] ELSE 0

(* "http://" is looked for anywhere in the text, "https://" only when that  *)
(* is nowhere.                                                              *)
AfterScheme(s_url) ==
  LET k1 == Find(http, s_url) k2 == Find(https, s_url)
  IN CASE k1 # npos -> From(s_url, k1 + Len(http))
       [] k1 = npos /\ k2 # npos -> From(s_url, k2 + Len(https))
       [] OTHER -> s_url

IsHttps(s_url) == Find(http, s_url) = npos /\ Find(https, s_url) # npos

(* init(): a URL without a path leaves ms_path alone.                       *)
Parse(s_url) ==
  LET s_data == AfterScheme(s_url)
      pos2 == Find(slash, s_data)
      sData1 == IF pos2 = npos THEN s_data ELSE Before(s_data, pos2)
      pos3 == Find(Str(<<":">>), sData1)
  IN /\ ms_path' = IF pos2 = npos THEN ms_path ELSE From(s_data, pos2)
     /\ ms_host' = IF pos3 = npos THEN sData1 ELSE Before(sData1, pos3)
     /\ msh_port' = IF pos3 # npos THEN ToShort(Atoi(From(sData1, pos3 + 1)))
                    ELSE IF IsHttps(s_url) THEN 443 ELSE 80

InitUrl(u) ==
  /\ Parse(UrlText(u))
  /\ given' = u

(* whole_url(): always http, and the port printed as the short it is.       *)
WholeUrl ==
  http \o ms_host \o <<Piece(":"), Num(msh_port)>> \o slash \o ms_path

(* The object's own text is parsed again; the path gets one more slash.     *)
Reparse ==
  /\ msh_port # NoPort /\ Len(ms_path) < MaxPath
  /\ Parse(WholeUrl)
  /\ given' = [https |-> FALSE, host |-> ms_host, port |-> ToUnsigned(msh_port),
               path |-> slash \o ms_path]

UrlNext == Clear \/ (\E u \in Urls : InitUrl(u)) \/ Reparse

UrlSpec == UrlInit /\ [][UrlNext]_urlVars

-----------------------------------------------------------------------------
(* A URL that names another one in its path.                                *)
NamesAnother(u) == u.https /\ Find(http, u.path) # npos

(* The object stands for the URL it was given last, whatever it held before *)
(* and however often it was printed and parsed again: host, path and port   *)
(* are its own, or the port of its scheme.  Two exceptions: of an https URL *)
(* that has an http URL in its path the object takes that one, and a URL    *)
(* without a path leaves the path of the one before.                        *)
StandsForGiven ==
  msh_port # NoPort /\ ~ NamesAnother(given) =>
    /\ ms_host = given.host
    /\ given.path # <<>> => ms_path = given.path
    /\ ToUnsigned(msh_port) = IF given.port # NoPort THEN given.port
                              ELSE IF given.https THEN 443 ELSE 80
=============================================================================

----------------------------- MODULE ReplStatus -----------------------------
(***************************************************************************)
(* replication/status.py: the class of an agreement's last update status   *)
(* and of a failed LDAP bind.  A text is the set of phrases found in it.   *)
(* The more specific phrases are looked for first, because they appear     *)
(* inside the message of a less specific LDAP code.                        *)
(***************************************************************************)
EXTENDS Integers, Sequences

GSSAPI      == {"GSSAPI_SERVER_NOT_FOUND", "GSSAPI_CLOCK_SKEW", "GSSAPI_NO_KDC", "GSSAPI_CREDENTIALS", "GSSAPI_OTHER"}
TRANSIENT   == {"BUSY", "BACKOFF", "NO_SESSIONS"}
NEEDS_ADMIN == {"CHANGELOG_PURGED", "GENERATION_MISMATCH", "REPLICA_ID_CONFLICT", "ADMIN_ACTION"}

(* _PHRASES, in their order. *)
PHRASES ==
  <<"GSSAPI_SERVER_NOT_FOUND", "GSSAPI_CLOCK_SKEW", "GSSAPI_NO_KDC", "GSSAPI_CREDENTIALS", "GSSAPI_OTHER",
    "CHANGELOG_PURGED", "GENERATION_MISMATCH", "REPLICA_ID_CONFLICT", "ADMIN_ACTION", "BUSY", "BACKOFF",
    "INSUFFICIENT_ACCESS", "INVALID_CREDENTIALS", "TLS", "TRANSPORT">>

ClassifyText(says) ==
  IF \A i \in DOMAIN PHRASES : PHRASES[i] \notin says THEN "UNCLASSIFIED"
  ELSE PHRASES[CHOOSE i \in DOMAIN PHRASES : PHRASES[i] \in says /\ \A j \in 1..i - 1 : PHRASES[j] \notin says]

None == 1000      \* no code: not a code of LDAP or of 389 Directory Server

LdapRc(code) ==
  IF code \in {-1, 81, 91, -11, -5, 85} THEN "TRANSPORT"
  ELSE IF code = 51 THEN "BUSY"
  ELSE IF code = 49 THEN "INVALID_CREDENTIALS"
  ELSE IF code = 50 THEN "INSUFFICIENT_ACCESS"
  ELSE IF code = -2 THEN "GSSAPI_OTHER"
  ELSE "UNCLASSIFIED"

(* A status: where its code stands ("connecting" to the replica,           *)
(* "acquiring" it, or neither), in the text or the JSON form.              *)
StatusText(code, where, says) == [form |-> "text", code |-> code, where |-> where, says |-> says, green |-> FALSE]
StatusJson(code, says, green) == [form |-> "json", code |-> code, where |-> "connecting", says |-> says, green |-> green]
NoStatus                      == [form |-> "none", code |-> None, where |-> "neither", says |-> {}, green |-> FALSE]

(* parse_status. *)
StatusClass(s) ==
  LET ldap     == IF s.where = "acquiring" THEN IF s.code = 0 THEN 0 ELSE None ELSE s.code
      phrase   == ClassifyText(s.says)
      unfailed == s.code \in {0, None}
  IN
  IF s.form = "none" THEN "UNCLASSIFIED"
  ELSE IF "no sessions" \in s.says THEN "NO_SESSIONS"
  ELSE IF unfailed /\ phrase = "UNCLASSIFIED" /\ ("success" \in s.says \/ (s.green /\ ldap = 0)) THEN "OK"
  ELSE IF phrase # "UNCLASSIFIED" THEN phrase
  ELSE LdapRc(ldap)

(* classify_bind_error, of the message and the code of a failed client. *)
BindClassOf(code, says) ==
  IF ClassifyText(says) # "UNCLASSIFIED" THEN ClassifyText(says)
  ELSE IF LdapRc(code) # "UNCLASSIFIED" THEN LdapRc(code)
  ELSE IF code = 255 THEN "TRANSPORT"
  ELSE "UNCLASSIFIED"
=============================================================================

-------------------------------- MODULE Access --------------------------------
(***************************************************************************)
(* Who a request comes from and what he may do: the settings that          *)
(* config.Load reads from the environment, Authenticate and requireAdmin.  *)
(* Functions of the settings and of the request; there is no state.        *)
(***************************************************************************)
CONSTANTS
  Names,      \* user IDs and mail addresses, apart from blanks around them
  Nobody      \* a text with nothing but blanks

ASSUME NobodyAssumption == Nobody \notin Names

\* A text without a name is empty, or consists of blanks.
Text == [name : Names \cup {Nobody}, padded : BOOLEAN]

Empty == [name |-> Nobody, padded |-> FALSE]

TrimSpace(t) == [t EXCEPT !.padded = FALSE]

\* A word of a setting: "" if it is unset, "blank" for nothing but blanks, "?"
\* for one that no setting knows.  exact: neither capitals nor blanks around it.
Setting(words) == [word : words \cup {"", "blank", "?"}, exact : BOOLEAN]

getEnv(s, default) == IF s.word = "" THEN [word |-> default, exact |-> TRUE] ELSE s

Providers == {"easy_auth", "oauth2_proxy"}

\* The headers in which a provider names the user; two settings that give them
\* other names are left out.
Header == [easy_auth    |-> [id |-> "X-MS-CLIENT-PRINCIPAL-ID", email |-> "X-MS-CLIENT-PRINCIPAL-NAME"],
           oauth2_proxy |-> [id |-> "X-Forwarded-User", email |-> "X-Forwarded-Email"]]

HeaderNames == UNION {{Header[p].id, Header[p].email} : p \in Providers}

Request == [headers : [HeaderNames -> Text], admin : BOOLEAN]

-----------------------------------------------------------------------------
(* config.Load                                                             *)

\* Load returns no error.
Loads(s) ==
  /\ getEnv(s.logLevel, "info").word \in {"error", "warn", "warning", "info", "debug", "blank"}
  /\ getEnv(s.dataDir, "/data").word # "blank"
  /\ LET mode == getEnv(s.authMode, "easy_auth") IN mode.exact /\ mode.word \in Providers
  /\ getEnv(s.roleDefault, "user").word \in {"user", "admin"}

Config(s) ==
  [authMode       |-> getEnv(s.authMode, "easy_auth").word,
   overrideUserID |-> s.overrideUserID,
   overrideEmail  |-> s.overrideEmail,
   roleDefault    |-> getEnv(s.roleDefault, "user").word,
   roleAdminIDs   |-> {TrimSpace(id) : id \in s.roleAdminIDs} \ {Empty}]

-----------------------------------------------------------------------------
(* Authenticate and requireAdmin                                           *)

Override(cfg) == cfg.overrideUserID # Empty /\ cfg.overrideEmail # Empty

Identity(cfg, q) ==
  IF Override(cfg) THEN [id |-> cfg.overrideUserID, email |-> cfg.overrideEmail]
  ELSE [id    |-> TrimSpace(q.headers[Header[cfg.authMode].id]),
        email |-> TrimSpace(q.headers[Header[cfg.authMode].email])]

Known(who) == who.id # Empty /\ who.email # Empty

\* Mutant of Role: the default also holds for those whom the proxy names.
RoleByDefault(cfg, who) ==
  IF who.id \in cfg.roleAdminIDs \/ cfg.roleDefault = "admin" THEN "admin" ELSE "user"

Role(cfg, who) ==
  IF who.id \in cfg.roleAdminIDs \/ (Override(cfg) /\ cfg.roleDefault = "admin")
  THEN "admin" ELSE "user"

\* What a request meets with: 401, 403, or the handler it was meant for.
Verdict(cfg, q) ==
  LET who == Identity(cfg, q) IN
  IF ~Known(who) THEN "unauthorized"
  ELSE IF q.admin /\ Role(cfg, who) # "admin" THEN "forbidden"
  ELSE "handled"
=============================================================================

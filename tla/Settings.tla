------------------------------ MODULE Settings ------------------------------
(***************************************************************************)
(* The configuration that kfc-userapi starts with: config.Load and         *)
(* Validate over the environment of the process and the .env files, for    *)
(* the settings that other modules rely on.  Values are given as trimmed,  *)
(* "" is a blank one.  Nothing here changes any more once the program      *)
(* runs, so these are operators and no actions; Gateway is what starts.    *)
(***************************************************************************)
EXTENDS Gateway

CONSTANTS
    Unset,          \* a variable that is not set
    NoFile,         \* a file that is not there, or that does not parse
    LongSecrets,    \* texts of 32 characters or more
    Processes,      \* environments that the process may be given
    Directories     \* files that may lie about

ASSUME SettingsAssumption ==
    /\ Unset # "production" /\ NoFile \notin Processes
    /\ "" \notin LongSecrets

Names == {"APP_ENV", "LOG_LEVEL", "HTTP_PORT", "REDIS_HOST", "JWT_DEVICE_SECRET",
          "CUSTOMER_JWT_SECRET", "CUSTOMER_DEV_ECHO_CODE", "CUSTOMER_COOKIE_SECURE"}

\* The files, in the order in which they are loaded.
Files(env) == << <<env, "local">>, <<env>>, <<"local">>, <<>> >>

\* dirs are the working directory and those above it, each a function from
\* files to what they set.  The nearest file of a name is loaded.
FindEnvFile(dirs, file) ==
    LET Has == {i \in 1..Len(dirs) : file \in DOMAIN dirs[i]}
    IN  IF Has = {} THEN NoFile ELSE dirs[Min(Has)][file]

\* godotenv.Load keeps what is set, blank or not.
LoadFile(environ, file) ==
    IF file = NoFile THEN environ
    ELSE [n \in Names |-> IF environ[n] # Unset THEN environ[n] ELSE file[n]]

ToLower(env) == IF env = "Production" THEN "production" ELSE env

LoadFiles(env, environ, dirs) ==
    LET Then(e, i) == LoadFile(e, FindEnvFile(dirs, Files(env)[i]))
    IN  Then(Then(Then(Then(environ, 1), 2), 3), 4)

\* Mutant: the files are loaded in every environment.
LoadDotenvAlways(env, environ, dirs) == LoadFiles(env, environ, dirs)

LoadDotenv(env, environ, dirs) ==
    IF ToLower(env) = "production" THEN environ ELSE LoadFiles(env, environ, dirs)

GetEnv(environ, n, fallback) == IF environ[n] \in {Unset, ""} THEN fallback ELSE environ[n]

Yes == {"true", "1", "yes", "on", "t"}
No == {"false", "0", "no", "off", "f"}

\* Anything else panics.
GetEnvBool(environ, n, fallback) == GetEnv(environ, n, IF fallback THEN "true" ELSE "false") \in Yes
IsBool(environ, n) == GetEnv(environ, n, "true") \in Yes \union No

----------------------------------------------------------------------------
\* APP_ENV is read before the files are.
Environment(process) == GetEnv(process, "APP_ENV", "development")

Environ(process, dirs) == LoadDotenv(Environment(process), process, dirs)

Load(process, dirs) ==
    LET env == Environment(process)
        environ == Environ(process, dirs)
    IN  [env      |-> env,
         level    |-> GetEnv(environ, "LOG_LEVEL", IF env = "production" THEN "info" ELSE "debug"),
         port     |-> GetEnv(environ, "HTTP_PORT", "8001"),
         redis    |-> GetEnv(environ, "REDIS_HOST", "localhost"),
         device   |-> GetEnv(environ, "JWT_DEVICE_SECRET", ""),
         customer |-> GetEnv(environ, "CUSTOMER_JWT_SECRET", ""),
         echo     |-> GetEnvBool(environ, "CUSTOMER_DEV_ECHO_CODE", env # "production"),
         secure   |-> GetEnvBool(environ, "CUSTOMER_COOKIE_SECURE", env = "production")]

\* Ports are numbers from 1 to 65535; no duration and no rate is checked.
Validate(c) ==
    /\ c.env \in {"development", "staging", "production"}
    /\ c.level \in {"debug", "info", "warn", "error"}
    /\ c.port \in {"8001", "80"}
    /\ c.redis # ""
    /\ {c.device, c.customer} \subseteq LongSecrets
    /\ c.customer # c.device
    /\ ~(c.env = "production" /\ c.echo)

\* main goes on to app.New: Load neither panics nor returns an error.
Starts(process, dirs) ==
    /\ \A n \in {"CUSTOMER_DEV_ECHO_CODE", "CUSTOMER_COOKIE_SECURE"} : IsBool(Environ(process, dirs), n)
    /\ Validate(Load(process, dirs))

----------------------------------------------------------------------------
(* Properties.                                                             *)

\* Everywhere that a variable may be set, the place that counts first in
\* front: the process, and then, unless it runs in production, the nearest
\* file of each name.
Places(process, dirs) ==
    LET File(i) == FindEnvFile(dirs, Files(Environment(process))[i])
    IN  IF Environment(process) \in {"production", "Production"} THEN <<process>>
        ELSE <<process, File(1), File(2), File(3), File(4)>>

\* One place decides on a setting, the first that mentions it, even if it says
\* nothing: a blank line in it hides what later places say, and the default
\* is taken.  What order files are loaded in and that none replaces what is
\* there already (loadDotenv, godotenv.Load) must go together for that; in
\* production no file that lies about may count at all.
FirstSettingWins ==
    \A process \in Processes, dirs \in Directories, n \in Names \ {"APP_ENV"} :
        LET places == Places(process, dirs)
            Says == {i \in DOMAIN places : places[i] # NoFile /\ places[i][n] # Unset}
        IN  GetEnv(Environ(process, dirs), n, "default")
                = IF Says = {} \/ places[Min(Says)][n] = "" THEN "default" ELSE places[Min(Says)][n]

\* A gateway that starts can tell its two kinds of token apart, which Gateway's
\* tokens rely on, and tells nobody a code in production, whatever the files
\* and defaults add to the environment (Validate, after Load).
AcceptedKeepsPromises ==
    \A process \in Processes, dirs \in Directories :
        Starts(process, dirs) =>
            LET c == Load(process, dirs)
            IN  /\ c.device # c.customer /\ c.device # "" /\ c.customer # ""
                /\ process["APP_ENV"] = "production" => ~c.echo

\* The configuration of a gateway that begins (config.Load, before app.New):
\* every setting comes from the place that counts, and what is accepted keeps
\* what Gateway's tokens rely on.
SettingsHold == Init => FirstSettingWins /\ AcceptedKeepsPromises
=============================================================================

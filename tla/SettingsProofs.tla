--------------------------- MODULE SettingsProofs ---------------------------
(***************************************************************************)
(* Proofs about Settings, for any environment of the process, any files    *)
(* and any directories they lie in.                                        *)
(***************************************************************************)
EXTENDS Settings, TLAPS

(* Of some of the five places one comes first.                             *)
LEMMA FirstPlace ==
    ASSUME NEW S \in SUBSET (1..5), S # {}
    PROVE  Min(S) \in S /\ \A i \in S : Min(S) <= i
<1>1. \E i \in S : \A j \in S : i <= j
    <2>1. CASE 1 \in S
        BY <2>1
    <2>2. CASE 1 \notin S /\ 2 \in S
        BY <2>2
    <2>3. CASE 1 \notin S /\ 2 \notin S /\ 3 \in S
        BY <2>3
    <2>4. CASE 1 \notin S /\ 2 \notin S /\ 3 \notin S /\ 4 \in S
        BY <2>4
    <2>5. CASE 1 \notin S /\ 2 \notin S /\ 3 \notin S /\ 4 \notin S
        <3>1. \A i \in S : i = 5
            BY <2>5
        <3>2. PICK i \in S : TRUE
            OBVIOUS
        <3> QED
            BY <3>1, <3>2
    <2> QED
        BY <2>1, <2>2, <2>3, <2>4, <2>5
<1> QED
    BY <1>1 DEF Min

(* godotenv.Load leaves to a variable what it has, and what nobody set to  *)
(* the file.                                                               *)
LEMMA LoadedFile ==
    ASSUME NEW environ, NEW file, NEW n \in Names
    PROVE  LoadFile(environ, file)[n] =
               IF file = NoFile \/ environ[n] # Unset THEN environ[n] ELSE file[n]
BY DEF LoadFile

\* What the five places in their order say of n, the first that says anything.
FirstOf(e, f, n) ==
    IF e[n] # Unset THEN e[n]
    ELSE IF f[1] # NoFile /\ f[1][n] # Unset THEN f[1][n]
    ELSE IF f[2] # NoFile /\ f[2][n] # Unset THEN f[2][n]
    ELSE IF f[3] # NoFile /\ f[3][n] # Unset THEN f[3][n]
    ELSE IF f[4] # NoFile /\ f[4][n] # Unset THEN f[4][n]
    ELSE Unset

\* The four files that findEnvFile finds.
Found(env, dirs) == [i \in 1..4 |-> FindEnvFile(dirs, Files(env)[i])]

(* The four files, one after the other, let the first word on n stand.     *)
LEMMA LoadedFiles ==
    ASSUME NEW env, NEW environ, NEW dirs, NEW n \in Names
    PROVE  LoadFiles(env, environ, dirs)[n] = FirstOf(environ, Found(env, dirs), n)
<1> DEFINE f == Found(env, dirs)
           e1 == LoadFile(environ, f[1])
           e2 == LoadFile(e1, f[2])
           e3 == LoadFile(e2, f[3])
           e4 == LoadFile(e3, f[4])
<1>1. LoadFiles(env, environ, dirs) = e4
    BY DEF LoadFiles, Found
<1>2. e1[n] = IF f[1] = NoFile \/ environ[n] # Unset THEN environ[n] ELSE f[1][n]
    BY LoadedFile
<1>3. e2[n] = IF f[2] = NoFile \/ e1[n] # Unset THEN e1[n] ELSE f[2][n]
    BY LoadedFile
<1>4. e3[n] = IF f[3] = NoFile \/ e2[n] # Unset THEN e2[n] ELSE f[3][n]
    BY LoadedFile
<1>5. e4[n] = IF f[4] = NoFile \/ e3[n] # Unset THEN e3[n] ELSE f[4][n]
    BY LoadedFile
<1> HIDE DEF f, e1, e2, e3, e4
<1>6. e4[n] = FirstOf(environ, f, n)
    BY <1>2, <1>3, <1>4, <1>5 DEF FirstOf
<1> QED
    BY <1>1, <1>6 DEF f

\* The places that mention n.
Saying(places, n) == {i \in DOMAIN places : places[i] # NoFile /\ places[i][n] # Unset}

(* Outside production, the first place that mentions a setting decides.    *)
LEMMA FirstOfFive ==
    ASSUME NEW process, NEW f, NEW n, process # NoFile,
           NEW places, places = <<process, f[1], f[2], f[3], f[4]>>,
           NEW Says, Says = Saying(places, n)
    PROVE  /\ Says = {} => FirstOf(process, f, n) = Unset
           /\ Says # {} => FirstOf(process, f, n) = places[Min(Says)][n]
                           /\ places[Min(Says)][n] # Unset
<1>1. /\ DOMAIN places = 1..5
      /\ places[1] = process /\ places[2] = f[1] /\ places[3] = f[2] /\ places[4] = f[3]
      /\ places[5] = f[4]
    OBVIOUS
<1>2. /\ Says \in SUBSET (1..5)
      /\ \A i \in 1..5 : i \in Says <=> places[i] # NoFile /\ places[i][n] # Unset
    BY <1>1 DEF Saying
<1>3. /\ 1 \in Says <=> process[n] # Unset
      /\ 2 \in Says <=> f[1] # NoFile /\ f[1][n] # Unset
      /\ 3 \in Says <=> f[2] # NoFile /\ f[2][n] # Unset
      /\ 4 \in Says <=> f[3] # NoFile /\ f[3][n] # Unset
      /\ 5 \in Says <=> f[4] # NoFile /\ f[4][n] # Unset
    BY <1>1, <1>2
<1>4. ASSUME Says = {} PROVE FirstOf(process, f, n) = Unset
    BY <1>3, <1>4 DEF FirstOf
<1>5. ASSUME Says # {}
      PROVE  FirstOf(process, f, n) = places[Min(Says)][n] /\ places[Min(Says)][n] # Unset
    <2>1. Min(Says) \in Says /\ \A i \in Says : Min(Says) <= i
        BY <1>2, <1>5, FirstPlace
    <2> DEFINE k == Min(Says)
    <2>2. k \in 1..5 /\ k \in Says /\ \A i \in Says : k <= i
        BY <1>2, <2>1
    <2> HIDE DEF k
    <2>3. FirstOf(process, f, n) = places[k][n]
        <3>1. CASE k = 1
            BY <1>1, <1>3, <2>2, <3>1 DEF FirstOf
        <3>2. CASE k = 2
            <4>1. 1 \notin Says
                BY <2>2, <3>2
            <4> QED
                BY <1>1, <1>3, <2>2, <3>2, <4>1 DEF FirstOf
        <3>3. CASE k = 3
            <4>1. 1 \notin Says /\ 2 \notin Says
                BY <2>2, <3>3
            <4> QED
                BY <1>1, <1>3, <2>2, <3>3, <4>1 DEF FirstOf
        <3>4. CASE k = 4
            <4>1. 1 \notin Says /\ 2 \notin Says /\ 3 \notin Says
                BY <2>2, <3>4
            <4> QED
                BY <1>1, <1>3, <2>2, <3>4, <4>1 DEF FirstOf
        <3>5. CASE k = 5
            <4>1. 1 \notin Says /\ 2 \notin Says /\ 3 \notin Says /\ 4 \notin Says
                BY <2>2, <3>5
            <4> QED
                BY <1>1, <1>3, <2>2, <3>5, <4>1 DEF FirstOf
        <3> QED
            BY <2>2, <3>1, <3>2, <3>3, <3>4, <3>5
    <2>4. places[k][n] # Unset
        BY <1>2, <2>2
    <2> QED
        BY <2>3, <2>4 DEF k
<1> QED
    BY <1>4, <1>5

(* In production no file counts.                                           *)
LEMMA ProcessAlone ==
    ASSUME NEW process, NEW n, process # NoFile, NEW places, places = <<process>>,
           NEW Says, Says = Saying(places, n)
    PROVE  /\ Says = {} => process[n] = Unset
           /\ Says # {} => process[n] = places[Min(Says)][n] /\ process[n] # Unset
<1>1. DOMAIN places = {1} /\ places[1] = process
    OBVIOUS
<1>2. Says \in SUBSET (1..5) /\ Says \subseteq {1} /\ (1 \in Says <=> process[n] # Unset)
    BY <1>1 DEF Saying
<1>3. ASSUME Says # {} PROVE Min(Says) = 1 /\ 1 \in Says
    BY <1>2, <1>3, FirstPlace
<1> QED
    BY <1>1, <1>2, <1>3

(* loadDotenv and godotenv.Load together: the nearest file of each name,   *)
(* in their order, fills in what the process and the files before it do    *)
(* not mention, and in production none does.                               *)
THEOREM FirstSetting == FirstSettingWins
<1> SUFFICES ASSUME NEW process \in Processes, NEW dirs \in Directories, NEW n \in Names
             PROVE  LET places == Places(process, dirs)
                        Says == Saying(places, n)
                    IN  GetEnv(Environ(process, dirs), n, "default")
                            = IF Says = {} \/ places[Min(Says)][n] = "" THEN "default"
                              ELSE places[Min(Says)][n]
    BY DEF FirstSettingWins, Saying
<1> DEFINE env == Environment(process)
           e == Environ(process, dirs)
           places == Places(process, dirs)
           Says == Saying(places, n)
<1>1. process # NoFile
    BY SettingsAssumption
<1>2. ASSUME Says = {} => e[n] = Unset,
             Says # {} => e[n] = places[Min(Says)][n] /\ e[n] # Unset
      PROVE  GetEnv(e, n, "default") = IF Says = {} \/ places[Min(Says)][n] = "" THEN "default"
                                       ELSE places[Min(Says)][n]
    <2> HIDE DEF e, places, Says
    <2> QED
        BY <1>2 DEF GetEnv
<1>3. CASE env \in {"production", "Production"}
    <2>1. e = process /\ places = <<process>>
        BY <1>3 DEF Environ, LoadDotenv, ToLower, Places
    <2>2. /\ Says = {} => process[n] = Unset
          /\ Says # {} => process[n] = places[Min(Says)][n] /\ process[n] # Unset
        <3> HIDE DEF places, Says
        <3>1. Says = Saying(places, n)
            BY DEF Says
        <3> QED
            BY <1>1, <2>1, <3>1, ProcessAlone
    <2> QED
        BY <1>2, <2>1, <2>2
<1>4. CASE env \notin {"production", "Production"}
    <2> DEFINE f == Found(env, dirs)
    <2>1. e = LoadFiles(env, process, dirs)
        BY <1>4 DEF Environ, LoadDotenv, ToLower
    <2>2. e[n] = FirstOf(process, f, n)
        BY <2>1, LoadedFiles
    <2>3. places = <<process, f[1], f[2], f[3], f[4]>>
        BY <1>4 DEF Places, Found
    <2>4. /\ Says = {} => FirstOf(process, f, n) = Unset
          /\ Says # {} => FirstOf(process, f, n) = places[Min(Says)][n]
                          /\ places[Min(Says)][n] # Unset
        <3> HIDE DEF places, f, Says
        <3>1. Says = Saying(places, n)
            BY DEF Says
        <3> QED
            BY <1>1, <2>3, <3>1, FirstOfFive
    <2> QED
        BY <1>2, <2>2, <2>4
<1> QED
    BY <1>3, <1>4

(* Load reads APP_ENV once and Validate looks at what came of it all: the  *)
(* secrets of devices and customers are there and differ, and a process in *)
(* production echoes no code, whatever a file says.                        *)
THEOREM Accepted == AcceptedKeepsPromises
<1> SUFFICES ASSUME NEW process \in Processes, NEW dirs \in Directories, Starts(process, dirs)
             PROVE  LET c == Load(process, dirs)
                    IN  /\ c.device # c.customer /\ c.device # "" /\ c.customer # ""
                        /\ process["APP_ENV"] = "production" => ~c.echo
    BY DEF AcceptedKeepsPromises
<1> DEFINE c == Load(process, dirs)
<1>1. /\ {c.device, c.customer} \subseteq LongSecrets /\ c.customer # c.device
      /\ ~(c.env = "production" /\ c.echo)
    <2>1. Validate(c)
        BY DEF Starts
    <2> HIDE DEF c
    <2> QED
        BY <2>1 DEF Validate
<1>2. c.env = Environment(process)
    BY DEF Load
<1>3. ASSUME process["APP_ENV"] = "production" PROVE Environment(process) = "production"
    <2>1. "production" # Unset
        BY SettingsAssumption
    <2>2. "production" # ""
        OBVIOUS
    <2> QED
        BY <1>3, <2>1, <2>2 DEF Environment, GetEnv
<1> HIDE DEF c
<1>4. /\ c.device # c.customer /\ c.device # "" /\ c.customer # ""
      /\ process["APP_ENV"] = "production" => ~c.echo
    BY <1>1, <1>2, <1>3, SettingsAssumption
<1> QED
    BY <1>4 DEF c

(* Both together: a gateway begins with the settings that were meant, and  *)
(* with those that Gateway's tokens rely on.                               *)
THEOREM Settled == SettingsHold
BY FirstSetting, Accepted DEF SettingsHold
=============================================================================

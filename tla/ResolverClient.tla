--------------------------- MODULE ResolverClient ---------------------------
(***************************************************************************)
(* A Resolver, or an ELFCache around one, in the hands of a long-lived     *)
(* caller: the caller may populate it again at any time, and the host and  *)
(* its loader configuration change behind its back.  resolve() and         *)
(* getELFPath() read and change nothing, so they are asked in every state. *)
(***************************************************************************)
EXTENDS ResolverCache

CONSTANTS Worlds,        \* host file systems
          Configs,       \* contents of /etc/ld.so.conf and /etc/ld.so.conf.d
          Environments,  \* values of LD_LIBRARY_PATH, split at the colons
          Settings,      \* ResolverOptions
          Requests,      \* additional search roots that are asked for
          OtherLine      \* a line that does not start with "/", an empty part

VARIABLES ldConfig,     \* the files parse_ld_config opens, in its order
          environment,  \* LD_LIBRARY_PATH
          settings,     \* m_options
          scanned       \* host and roots of the last populate() (history)

machine == <<host, ldConfig>>
clientVars == <<machine, environment, settings, cached, scanned>>

Line == Dir \cup {OtherLine}
Option == [defaults : BOOLEAN, ldConfig : BOOLEAN, environment : BOOLEAN,
           roots : Seq(Dir)]

ASSUME ClientAssumption ==
  /\ \A h \in Worlds : /\ DOMAIN h \subseteq RealPath
                       /\ \A p \in DOMAIN h : h[p] \in Node
  /\ Configs \subseteq Seq(Seq(Line)) /\ Environments \subseteq Seq(Line)
  /\ Settings \subseteq Option /\ Requests \subseteq Seq(Dir)
  /\ OtherLine \notin Dir
  /\ IsFiniteSet(Name) /\ \A d \in Dir : IsFiniteSet(Listed[d])

(* What populate() keeps are whole answers, at most the records and alias  *)
(* lists of the names there are, and it has been called on a known host.   *)
ClientTypeOK ==
  /\ HostType /\ CachedType
  /\ ldConfig \in Seq(Seq(Line)) /\ environment \in Seq(Line)
  /\ settings \in Option
  /\ scanned.host \in Worlds \cup {NoEntries}
  /\ \A i \in DOMAIN scanned.roots : i \in Nat /\ scanned.roots[i] \in Dir

-----------------------------------------------------------------------------
(* parse_ld_config_file, parse_env_var: comments, include lines and empty  *)
(* parts are dropped, the order is kept (the list of roots has gaps).      *)
OnlyDirs(lines) == RestrictValues(lines, LAMBDA line : line \in Dir)

If(option, dirs) == IF option THEN dirs ELSE <<>>

(* parse_ld_config: every file of ld.so.conf.d is read, included or not.   *)
ParseLdConfig == FlattenSeq(ldConfig)

(* Mutation: LD_LIBRARY_PATH goes first, as it does for the loader.       *)
CollectSearchDirs_EnvironmentFirst ==
  OnlyDirs(If(settings.environment, environment) \o
           If(settings.defaults, SystemRoots) \o
           If(settings.ldConfig, ParseLdConfig) \o
           settings.roots)

CollectSearchDirs ==
  OnlyDirs(If(settings.defaults, SystemRoots) \o
           If(settings.ldConfig, ParseLdConfig) \o
           If(settings.environment, environment) \o
           settings.roots)

(* ELFCache::getELFPath: the payload of the kept record, if there is one.  *)
GetELFPath(name) ==
  IF Resolve(name, <<>>) = NoResolution THEN NoPath
  ELSE Resolve(name, <<>>).canonical

-----------------------------------------------------------------------------
ClientInit ==
  /\ host \in Worlds /\ ldConfig \in Configs
  /\ environment \in Environments /\ settings \in Settings
  /\ cached = [n \in Name |-> {}]
  /\ scanned = [host |-> NoEntries, roots |-> <<>>]

(* Mutation: only the path of the payload is kept for a name.             *)
Populate_PathsOnly ==
  /\ cached' = [n \in Name |-> {r.canonical : r \in ResolveIn(n, CollectSearchDirs)}]
  /\ scanned' = [host |-> host, roots |-> CollectSearchDirs]
  /\ UNCHANGED <<machine, environment, settings>>

(* Mutation: populate() adds to the records of an earlier call.           *)
Populate_Merges ==
  /\ cached' = [n \in Name |-> OrElse(ResolveIn(n, CollectSearchDirs), cached[n])]
  /\ scanned' = [host |-> host, roots |-> CollectSearchDirs]
  /\ UNCHANGED <<machine, environment, settings>>

(* scan(): both maps are replaced by those of a new scan.                  *)
Populate ==
  /\ cached' = Scanned(CollectSearchDirs)
  /\ scanned' = [host |-> host, roots |-> CollectSearchDirs]
  /\ UNCHANGED <<machine, environment, settings>>

MachineChanges ==
  /\ host' \in Worlds /\ ldConfig' \in Configs
  /\ UNCHANGED <<environment, settings, cached, scanned>>

ClientNext == Populate \/ MachineChanges
ClientSpec == ClientInit /\ [][ClientNext]_clientVars

-----------------------------------------------------------------------------
Then == INSTANCE Resolver WITH host <- scanned.host

(* Every answer, payload and aliases alike, is what one scan said: a scan  *)
(* of the requested roots on the host as it is, else the last populate().  *)
(* Never a mixture, and never a record of an earlier populate().           *)
AnswersOfOneScan ==
  \A name \in Name, asked \in Requests :
    LET now == ResolveIn(name, asked)
        kept == Then!ResolveIn(name, scanned.roots)
        answer == Resolve(name, asked)
    IN  IF answer = NoResolution THEN now = {} /\ kept = {}
        ELSE answer \in OrElse(now, kept)

Current == scanned.host = host /\ scanned.roots = CollectSearchDirs

(* While nothing has changed since populate(), a path is known for exactly *)
(* the names under which some search root lists an ELF file or a symlink   *)
(* to one, and an ELF file is there.                                       *)
CurrentRecordsAreExact ==
  Current =>
    \A name \in Name :
      /\ GetELFPath(name) # NoPath <=>
           \E v \in Visits(CollectSearchDirs) :
             v[2].name = name /\ (IsLinkEntry(v[2]) \/ IsFileEntry(v[2]))
      /\ GetELFPath(name) # NoPath => IsElf(GetELFPath(name))

(* A regular file of a system directory is hidden by no regular file that  *)
(* LD_LIBRARY_PATH, ld.so.conf or an option adds, only by a symlink.       *)
SystemFilesComeFirst ==
  Current /\ settings.defaults =>
    \A name \in Name :
      /\ FileVisits(name, SystemRoots) # {}
      /\ LinkVisits(name, CollectSearchDirs) = {}
      => GetELFPath(name) \in
           {Canonicalize(v[2]) : v \in FirstOf(FileVisits(name, SystemRoots))}

=============================================================================

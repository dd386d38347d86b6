----------------------------- MODULE ImageBuilds -----------------------------
(***************************************************************************)
(* How the containers of one deployment share docker builds:               *)
(* aws/service.ts 156-191, 268-338 and azure/service.ts 434-534.  Defining *)
(* a container names its image and gets a repository.  The worker runs     *)
(* when the outputs of the repository are known, for the containers in any *)
(* order, and starts a build that takes its time unless it finds one in    *)
(* buildImageCache.  A build is named by the container that started it.    *)
(***************************************************************************)
EXTENDS Naturals, FiniteSets

CONSTANTS Containers,  \* the containers with a `build`
          Images,      \* the values of getBuildImageName
          ImageOf,     \* the image name of each container
          None

ASSUME ImageAssumption == ImageOf \in [Containers -> Images]
ASSUME NoneAssumption  == None \notin Containers

VARIABLES cloud,         \* "aws" or "azure", for the whole program
          repositories,  \* the repositories (azure: the one registry)
          made,          \* history: how often each was registered
          known,         \* the repositories whose outputs are known
          waiting,       \* containers whose worker has not run
          cache,         \* buildImageCache
          build,         \* the state of each build
          uses           \* the build whose image each container runs

vars == <<cloud, repositories, made, known, waiting, cache, build, uses>>

\* AWS has a repository for each image, Azure one registry for all.
Repositories == Images \cup {"global"}

-----------------------------------------------------------------------------
Init ==
  /\ cloud \in {"aws", "azure"}
  /\ repositories = {}
  /\ made = [r \in Repositories |-> 0]
  /\ known = {}
  /\ waiting = {}
  /\ cache = [i \in Images |-> None]
  /\ build = [c \in Containers |-> "none"]
  /\ uses = [c \in Containers |-> None]

\* Mutant of GetOrCreateRepository: no look at the repositories there are.
CreateRepository(r) ==
  /\ repositories' = repositories \cup {r}
  /\ made' = [made EXCEPT ![r] = @ + 1]

\* getOrCreateRepository.
GetOrCreateRepository(r) ==
  IF r \in repositories THEN UNCHANGED <<repositories, made>>
  ELSE /\ repositories' = repositories \cup {r}
       /\ made' = [made EXCEPT ![r] = @ + 1]

\* computeImageFromBuild, called once for each container.
Define(c) ==
  /\ cloud = "aws"
  /\ c \notin waiting
  /\ uses[c] = None
  /\ GetOrCreateRepository(ImageOf[c])
  /\ waiting' = waiting \cup {c}
  /\ UNCHANGED <<cloud, known, cache, build, uses>>

\* getOrCreateGlobalRegistry.
GetOrCreateGlobalRegistry ==
  IF "global" \in repositories THEN UNCHANGED <<repositories, made>>
  ELSE /\ repositories' = repositories \cup {"global"}
       /\ made' = [made EXCEPT !["global"] = @ + 1]

DefineOnAzure(c) ==
  /\ cloud = "azure"
  /\ c \notin waiting
  /\ uses[c] = None
  /\ GetOrCreateGlobalRegistry
  /\ waiting' = waiting \cup {c}
  /\ UNCHANGED <<cloud, known, cache, build, uses>>

\* The engine has created the repository.
Resolve(r) ==
  /\ r \in repositories \ known
  /\ known' = known \cup {r}
  /\ UNCHANGED <<cloud, repositories, made, waiting, cache, build, uses>>

\* Mutants of Remember: the build's state is cached; nothing is.
RememberState(i, b)   == cache' = [cache EXCEPT ![i] = "running"]
RememberNothing(i, b) == UNCHANGED cache

\* buildImageCache.set(imageName, uniqueImageName).
Remember(i, b) == cache' = [cache EXCEPT ![i] = b]

\* Mutant of Worker: a container that meets a running build is left without.
WorkerSkipping(c) ==
  /\ cloud = "aws"
  /\ c \in waiting
  /\ ImageOf[c] \in known
  /\ waiting' = waiting \ {c}
  /\ IF cache[ImageOf[c]] # None
     THEN /\ uses' = IF build[cache[ImageOf[c]]] = "running" THEN uses
                     ELSE [uses EXCEPT ![c] = cache[ImageOf[c]]]
          /\ UNCHANGED <<cache, build>>
     ELSE /\ uses' = [uses EXCEPT ![c] = c]
          /\ build' = [build EXCEPT ![c] = "running"]
          /\ Remember(ImageOf[c], c)
  /\ UNCHANGED <<cloud, repositories, made, known>>

\* computeImageFromBuildWorker: the build before, or a new one.
Worker(c) ==
  /\ cloud = "aws"
  /\ c \in waiting
  /\ ImageOf[c] \in known
  /\ waiting' = waiting \ {c}
  /\ IF cache[ImageOf[c]] # None
     THEN /\ uses' = [uses EXCEPT ![c] = cache[ImageOf[c]]]
          /\ UNCHANGED <<cache, build>>
     ELSE /\ uses' = [uses EXCEPT ![c] = c]
          /\ build' = [build EXCEPT ![c] = "running"]
          /\ Remember(ImageOf[c], c)
  /\ UNCHANGED <<cloud, repositories, made, known>>

\* Azure's looks at a cache that nobody fills.
WorkerOnAzure(c) ==
  /\ cloud = "azure"
  /\ c \in waiting
  /\ "global" \in known
  /\ waiting' = waiting \ {c}
  /\ IF cache[ImageOf[c]] # None
     THEN /\ uses' = [uses EXCEPT ![c] = cache[ImageOf[c]]]
          /\ UNCHANGED build
     ELSE /\ uses' = [uses EXCEPT ![c] = c]
          /\ build' = [build EXCEPT ![c] = "running"]
  /\ UNCHANGED <<cloud, repositories, made, known, cache>>

\* docker.buildAndPushImage is done.
Finish(b, how) ==
  /\ build[b] = "running"
  /\ build' = [build EXCEPT ![b] = how]
  /\ UNCHANGED <<cloud, repositories, made, known, waiting, cache, uses>>

Next ==
  \/ \E c \in Containers : Define(c)
  \/ \E c \in Containers : DefineOnAzure(c)
  \/ \E r \in Repositories : Resolve(r)
  \/ \E c \in Containers : Worker(c)
  \/ \E c \in Containers : WorkerOnAzure(c)
  \/ \E b \in Containers, how \in {"pushed", "failed"} : Finish(b, how)

\* The engine creates what is registered, callbacks run, builds end.
Fairness ==
  /\ \A r \in Repositories : WF_vars(Resolve(r))
  /\ \A c \in Containers : /\ WF_vars(Worker(c) \/ WorkerOnAzure(c))
                           /\ WF_vars(Finish(c, "pushed") \/ Finish(c, "failed"))

Spec == Init /\ [][Next]_vars /\ Fairness

-----------------------------------------------------------------------------
TypeOK ==
  /\ cloud \in {"aws", "azure"}
  /\ repositories \subseteq Repositories
  /\ made \in [Repositories -> Nat]
  /\ known \subseteq repositories
  /\ waiting \subseteq Containers
  /\ cache \in [Images -> Containers \cup {None}]
  /\ build \in [Containers -> {"none", "running", "pushed", "failed"}]
  /\ uses \in [Containers -> Containers \cup {None}]

EachBuiltOnce ==
  \A b, c \in Containers :
    build[b] # "none" /\ build[c] # "none" /\ ImageOf[b] = ImageOf[c] => b = c

(***************************************************************************)
(* "See if we've already built this" (aws/service.ts 293): no image is     *)
(* built twice, although the workers of its containers run while the first *)
(* build is under way.                                                     *)
(***************************************************************************)
BuiltOnce == cloud = "aws" => EachBuiltOnce

(***************************************************************************)
(* The same comment in azure/service.ts 515.                               *)
(***************************************************************************)
BuiltOnceOnAzure == cloud = "azure" => EachBuiltOnce

(***************************************************************************)
(* Containers with one build specification run one image, that build's,    *)
(* on AWS; on both clouds, those with different ones never do.             *)
(***************************************************************************)
SameImage ==
  \A b, c \in Containers :
    uses[b] # None /\ uses[c] # None =>
      /\ cloud = "aws" /\ ImageOf[b] = ImageOf[c] => uses[b] = uses[c]
      /\ uses[b] = uses[c] => ImageOf[b] = ImageOf[c]

(***************************************************************************)
(* Each repository is registered once however many containers use it.      *)
(***************************************************************************)
RepositoryOnce == \A r \in Repositories : made[r] <= 1

(***************************************************************************)
(* Every container gets an image or its build's error: one that finds a    *)
(* running build in the cache is told of its end too.                      *)
(***************************************************************************)
ImageKnown ==
  \A c \in Containers :
    (c \in waiting) ~> (uses[c] # None /\ build[uses[c]] \in {"pushed", "failed"})
=============================================================================

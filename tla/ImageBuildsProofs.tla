-------------------------- MODULE ImageBuildsProofs --------------------------
(***************************************************************************)
(* Proofs about ImageBuilds for any number of containers and images.  The  *)
(* cache decides: in the AWS code a build is under way exactly when it is  *)
(* the one the cache holds for its image.  The Azure code fills no cache.  *)
(***************************************************************************)
EXTENDS ImageBuilds, TLAPS

LEMMA InitType == Init => TypeOK
BY DEF Init, TypeOK

LEMMA NextType == TypeOK /\ [Next]_vars => TypeOK'
<1> SUFFICES ASSUME TypeOK, [Next]_vars PROVE TypeOK'
  OBVIOUS
<1> USE ImageAssumption DEF vars
<1>1. ASSUME NEW c \in Containers, Define(c) PROVE TypeOK'
  <2>1. ImageOf[c] \in Repositories
    BY DEF Repositories
  <2> QED BY <1>1, <2>1 DEF Define, GetOrCreateRepository, TypeOK
<1>6. ASSUME NEW c \in Containers, DefineOnAzure(c) PROVE TypeOK'
  <2>1. "global" \in Repositories
    BY DEF Repositories
  <2> QED BY <1>6, <2>1 DEF DefineOnAzure, GetOrCreateGlobalRegistry, TypeOK
<1>7. ASSUME NEW c \in Containers, WorkerOnAzure(c) PROVE TypeOK'
  BY <1>7 DEF WorkerOnAzure, TypeOK
<1>2. ASSUME NEW r \in Repositories, Resolve(r) PROVE TypeOK'
  BY <1>2 DEF Resolve, TypeOK
<1>3. ASSUME NEW c \in Containers, Worker(c) PROVE TypeOK'
  <2>1. ImageOf[c] \in Images
    OBVIOUS
  <2> QED BY <1>3, <2>1 DEF Worker, Remember, TypeOK
<1>4. ASSUME NEW b \in Containers, NEW how \in {"pushed", "failed"}, Finish(b, how)
      PROVE  TypeOK'
  BY <1>4 DEF Finish, TypeOK
<1>5. CASE UNCHANGED vars
  BY <1>5 DEF TypeOK
<1> QED BY <1>1, <1>2, <1>3, <1>4, <1>5, <1>6, <1>7 DEF Next

(***************************************************************************)
(* Every variable keeps its type; outputs are known of registered          *)
(* repositories only.                                                      *)
(***************************************************************************)
THEOREM TypeCorrect == Spec => []TypeOK
BY InitType, NextType, PTL DEF Spec

\* The builds there are are the cached ones, and containers run no other.
CacheDecides ==
  /\ \A i \in Images : cache[i] # None =>
       build[cache[i]] # "none" /\ ImageOf[cache[i]] = i
  /\ \A b \in Containers : build[b] # "none" => cache[ImageOf[b]] = b
  /\ \A c \in Containers : uses[c] # None => uses[c] = cache[ImageOf[c]]

\* The build a container runs is one of its image.
RunsOwnImage ==
  /\ \A i \in Images : cache[i] # None => cloud = "aws" /\ ImageOf[cache[i]] = i
  /\ \A c \in Containers : uses[c] # None => ImageOf[uses[c]] = ImageOf[c]

IInv == (cloud = "aws" => CacheDecides) /\ RunsOwnImage

LEMMA InitCache == Init => IInv
BY ImageAssumption DEF Init, IInv, CacheDecides, RunsOwnImage

LEMMA WorkerCache ==
  ASSUME TypeOK, CacheDecides, NEW c \in Containers, Worker(c)
  PROVE  CacheDecides'
<1>1. ImageOf[c] \in Images /\ c # None
  BY ImageAssumption, NoneAssumption
<1>2. CASE cache[ImageOf[c]] # None
  BY <1>1, <1>2, ImageAssumption DEF Worker, TypeOK, CacheDecides
<1>3. CASE cache[ImageOf[c]] = None
  <2>1. /\ cache' = [cache EXCEPT ![ImageOf[c]] = c]
        /\ build' = [build EXCEPT ![c] = "running"]
        /\ uses' = [uses EXCEPT ![c] = c]
    BY <1>3 DEF Worker, Remember
  <2>2. \A b \in Containers : ImageOf[b] = ImageOf[c] => build[b] = "none" /\ uses[b] = None
    BY <1>3, NoneAssumption DEF CacheDecides, TypeOK
  <2>3. ASSUME NEW i \in Images, cache'[i] # None
        PROVE  build'[cache'[i]] # "none" /\ ImageOf[cache'[i]] = i
    BY <1>1, <2>1, <2>2, <2>3 DEF CacheDecides, TypeOK
  <2>4. ASSUME NEW b \in Containers, build'[b] # "none"
        PROVE  cache'[ImageOf[b]] = b
    BY <1>1, <2>1, <2>2, <2>4, ImageAssumption DEF CacheDecides, TypeOK
  <2>5. ASSUME NEW b \in Containers, uses'[b] # None
        PROVE  uses'[b] = cache'[ImageOf[b]]
    BY <1>1, <2>1, <2>2, <2>5, ImageAssumption DEF CacheDecides, TypeOK
  <2> QED BY <2>3, <2>4, <2>5 DEF CacheDecides
<1> QED BY <1>2, <1>3

LEMMA WorkerImage ==
  ASSUME TypeOK, RunsOwnImage, NEW c \in Containers, Worker(c)
  PROVE  RunsOwnImage'
<1>1. ImageOf[c] \in Images
  BY ImageAssumption
<1>2. CASE cache[ImageOf[c]] # None
  <2>1. /\ uses' = [uses EXCEPT ![c] = cache[ImageOf[c]]]
        /\ cache' = cache /\ cloud' = cloud
        /\ ImageOf[cache[ImageOf[c]]] = ImageOf[c]
    BY <1>1, <1>2 DEF Worker, RunsOwnImage
  <2> QED BY <2>1 DEF TypeOK, RunsOwnImage
<1>3. CASE cache[ImageOf[c]] = None
  <2>1. /\ cache' = [cache EXCEPT ![ImageOf[c]] = c]
        /\ uses' = [uses EXCEPT ![c] = c]
        /\ cloud = "aws" /\ cloud' = cloud
    BY <1>3 DEF Worker, Remember
  <2> QED BY <1>1, <2>1 DEF TypeOK, RunsOwnImage
<1> QED BY <1>2, <1>3

LEMMA WorkerOnAzureImage ==
  ASSUME TypeOK, RunsOwnImage, NEW c \in Containers, WorkerOnAzure(c)
  PROVE  RunsOwnImage'
<1>1. cache[ImageOf[c]] = None
  BY ImageAssumption DEF WorkerOnAzure, RunsOwnImage
<1>2. uses' = [uses EXCEPT ![c] = c] /\ cache' = cache /\ cloud' = cloud
  BY <1>1 DEF WorkerOnAzure
<1> QED BY <1>2 DEF TypeOK, RunsOwnImage

LEMMA NextCache == TypeOK /\ IInv /\ [Next]_vars => IInv'
<1> SUFFICES ASSUME TypeOK, IInv, [Next]_vars PROVE IInv'
  OBVIOUS
<1>1. ASSUME NEW c \in Containers, Define(c) PROVE IInv'
  BY <1>1 DEF Define, IInv, CacheDecides, RunsOwnImage
<1>2. ASSUME NEW c \in Containers, DefineOnAzure(c) PROVE IInv'
  BY <1>2 DEF DefineOnAzure, IInv, CacheDecides, RunsOwnImage
<1>3. ASSUME NEW r \in Repositories, Resolve(r) PROVE IInv'
  BY <1>3 DEF Resolve, IInv, CacheDecides, RunsOwnImage
<1>4. ASSUME NEW c \in Containers, Worker(c) PROVE IInv'
  <2>1. cloud = "aws"
    BY <1>4 DEF Worker
  <2> QED BY <1>4, <2>1, WorkerCache, WorkerImage DEF IInv
<1>5. ASSUME NEW c \in Containers, WorkerOnAzure(c) PROVE IInv'
  <2>1. cloud' = "azure"
    BY <1>5 DEF WorkerOnAzure
  <2> QED BY <1>5, <2>1, WorkerOnAzureImage DEF IInv
<1>6. ASSUME NEW b \in Containers, NEW how \in {"pushed", "failed"}, Finish(b, how)
      PROVE  IInv'
  BY <1>6 DEF Finish, IInv, CacheDecides, RunsOwnImage, TypeOK
<1>7. CASE UNCHANGED vars
  BY <1>7 DEF IInv, CacheDecides, RunsOwnImage, vars
<1> QED BY <1>1, <1>2, <1>3, <1>4, <1>5, <1>6, <1>7 DEF Next

LEMMA CacheAlways == Spec => []IInv
BY NextCache, InitCache, TypeCorrect, PTL DEF Spec

(***************************************************************************)
(* On AWS no image is built twice (aws/service.ts 292-332).                *)
(***************************************************************************)
THEOREM BuiltOnceCorrect == Spec => []BuiltOnce
<1>1. IInv => BuiltOnce
  BY DEF IInv, CacheDecides, BuiltOnce, EachBuiltOnce
<1> QED BY <1>1, CacheAlways, PTL

(***************************************************************************)
(* On AWS containers share an image exactly when they share its name; on   *)
(* Azure, too, no container runs the image of another specification.       *)
(***************************************************************************)
THEOREM SameImageCorrect == Spec => []SameImage
<1>1. IInv => SameImage
  BY ImageAssumption DEF IInv, CacheDecides, RunsOwnImage, SameImage
<1> QED BY <1>1, CacheAlways, PTL

-----------------------------------------------------------------------------
\* The caches of repositories know what was registered.
CountedOnce == \A r \in Repositories : made[r] = IF r \in repositories THEN 1 ELSE 0

LEMMA NextCounted == TypeOK /\ CountedOnce /\ [Next]_vars => CountedOnce'
<1> SUFFICES ASSUME TypeOK, CountedOnce, [Next]_vars PROVE CountedOnce'
  OBVIOUS
<1>1. ASSUME NEW c \in Containers, Define(c) PROVE CountedOnce'
  BY <1>1, ImageAssumption DEF Define, GetOrCreateRepository, TypeOK, CountedOnce, Repositories
<1>2. ASSUME NEW c \in Containers, DefineOnAzure(c) PROVE CountedOnce'
  BY <1>2 DEF DefineOnAzure, GetOrCreateGlobalRegistry, TypeOK, CountedOnce, Repositories
<1>3. CASE UNCHANGED <<repositories, made>>
  BY <1>3 DEF CountedOnce
<1> QED
  BY <1>1, <1>2, <1>3 DEF Next, Resolve, Worker, WorkerOnAzure, Finish, vars

(***************************************************************************)
(* On both clouds each repository is registered once, however many         *)
(* containers ask for it (aws/service.ts 160-191, azure/service.ts         *)
(* 434-451).                                                               *)
(***************************************************************************)
THEOREM RepositoryOnceCorrect == Spec => []RepositoryOnce
<1>1. Init => CountedOnce
  BY DEF Init, CountedOnce
<1>2. CountedOnce => RepositoryOnce
  BY DEF CountedOnce, RepositoryOnce
<1> QED BY <1>1, <1>2, NextCounted, TypeCorrect, PTL DEF Spec
=============================================================================

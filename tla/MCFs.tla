-------------------------------- MODULE MCFs ----------------------------------
(* Scenarios for TLC: each is a sequence of programs that start together. *)
EXTENDS UserTests

SequentialTests == {
  iputtest, opentest, writetest, writetest1, createtest, dirtest, exectest, unlinkread,
  linktest, bigdir, subdir, bigwrite, bigfile, fourteen, rmdot, dirfile, iref,
  descriptors, removed, linkdot, usertests, fsfull}
ConcurrentTests == {
  exitiputtest, openiputtest, pipe1, exitwait, sharedfd, fourfiles, createdelete, concreate,
  forktest, stressfs, session, preempt, listing, reuse, removing}
LinkUnlink == {linkunlink(c1, c2, p1, p2) : c1, c2, p1, p2 \in LinkUnlinkCalls}
JobPairs   == {jobs(j, k) : j, k \in Jobs}
Scenarios  == SequentialTests \cup ConcurrentTests \cup LinkUnlink \cup JobPairs

Spec == (\E program \in Scenarios : Start(Image, <<program>>)) /\ [][Next]_vars

\* What the theorems of SysFileProofs ask of the image and of the programs.
RECURSIVE CallsOf(_)
CallsOf(program) ==
  ToSet(program) \cup UNION {CallsOf(i.child) : i \in {c \in ToSet(program) : c.op = "fork"}}
ASSUME ScenariosAreLegal ==
  /\ IsFileSystem(Image)
  /\ \A program \in Scenarios :
       /\ ArePrograms(<<program>>, CallsOf(program))
       /\ AreCalls(CallsOf(program), STRING)

\* The scenario of the run that expects a violation.
SpecOpenIput == Start(Image, <<openiputtest>>) /\ [][Next]_vars
=============================================================================

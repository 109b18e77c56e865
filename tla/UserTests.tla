------------------------------ MODULE UserTests -------------------------------
(***************************************************************************)
(* The programs of the repository that exercise the file system, as        *)
(* sequences of system calls with the results that they accept: the tests  *)
(* of usertests.c, stressfs.c, init.c, and commands as sh.c runs them.     *)
(*                                                                         *)
(* A test that exits when a result is not the one it wants is the call     *)
(* with the set of the results it goes on with.  Loops are cut down to the *)
(* turns that differ, and a word stands for the bytes of one write.        *)
(***************************************************************************)
EXTENDS SysFile

Abs(names) == [abs |-> TRUE, names |-> names]
Rel(names) == [abs |-> FALSE, names |-> names]
N(name)    == Rel(<<name>>)
Root       == Abs(<<>>)
Here       == N(".")

Whatever == -1 .. 99
OK  == {0}
Bad == {-1}

open(path, mode, want) ==
  [op |-> "open", path |-> path, create |-> FALSE, mode |-> mode, want |-> want]
creat(path, mode, want) ==
  [op |-> "open", path |-> path, create |-> TRUE, mode |-> mode, want |-> want]
mkdir(path, want)  == [op |-> "mkdir", path |-> path, want |-> want]
mknod(path, want)  == [op |-> "mknod", path |-> path, want |-> want]
unlink(path, want) == [op |-> "unlink", path |-> path, want |-> want]
chdir(path, want)  == [op |-> "chdir", path |-> path, want |-> want]
exec(path)         == [op |-> "exec", path |-> path, want |-> OK]
link(old, path, want) == [op |-> "link", path |-> old, new |-> path, want |-> want]
close(fd, want) == [op |-> "close", fd |-> fd, want |-> want]
dup(fd, want)   == [op |-> "dup", fd |-> fd, want |-> want]
fstat(fd, want) == [op |-> "fstat", fd |-> fd, want |-> want]
pipe            == [op |-> "pipe", want |-> OK]
read(fd, n, data) == [op |-> "read", fd |-> fd, n |-> n, data |-> data,
                      want |-> {Len(d) : d \in data}]
readAll(fd, n, data) == [op |-> "read", all |-> TRUE, fd |-> fd, n |-> n, data |-> data,
                         want |-> OK]
readBad(fd) == [op |-> "read", fd |-> fd, n |-> 1, want |-> Bad]
write(fd, words) == [op |-> "write", fd |-> fd, words |-> words, want |-> {Len(words)}]
writeBad(fd)     == [op |-> "write", fd |-> fd, words |-> <<"x">>, want |-> Bad]
fork(child) == [op |-> "fork", child |-> child, want |-> Procs]
forkBad     == [op |-> "fork", child |-> <<>>, want |-> Bad]
wait        == [op |-> "wait", want |-> Procs]
waitAny     == [op |-> "wait", want |-> Whatever]
waitBad     == [op |-> "wait", want |-> Bad]
killAll     == [op |-> "kill", want |-> OK]
spin        == [op |-> "spin"]                           \* a loop, until killed
readSome(fd, n, want) == [op |-> "read", fd |-> fd, n |-> n, want |-> want]

Times(n, calls) == FlattenSeq([i \in 1 .. n |-> calls])
Copies(n, word) == [i \in 1 .. n |-> word]

\* The disk image of the tests: three commands and a README.
ImageNames == <<"README", "cat", "echo", "sh">>
Bytes(name) == <<"bytes of " \o name>>
Image == Mkfs(ImageNames, [i \in 1 .. Len(ImageNames) |-> <<<<0, Bytes(ImageNames[i])[1]>>>>])

-----------------------------------------------------------------------------
(* usertests.c                                                             *)

iputtest == <<
  mkdir(N("iputdir"), OK), chdir(N("iputdir"), OK),
  unlink(Rel(<<"..", "iputdir">>), OK), chdir(Root, OK)>>

exitiputtest == <<
  fork(<<mkdir(N("iputdir"), OK), chdir(N("iputdir"), OK),
         unlink(Rel(<<"..", "iputdir">>), OK)>>),
  wait>>

openiputtest == <<
  mkdir(N("oidir"), OK),
  fork(<<open(N("oidir"), "rdwr", Bad)>>),
  unlink(N("oidir"), OK), wait>>

opentest == <<
  open(N("echo"), "rdonly", OK), close(0, OK), open(N("doesnotexist"), "rdonly", Bad)>>

writetest == <<
  creat(N("small"), "rdwr", OK), write(0, <<"aa">>), write(0, <<"bb">>), close(0, OK),
  open(N("small"), "rdonly", OK), read(0, 3, {<<"aa", "bb">>}), close(0, OK),
  unlink(N("small"), OK)>>

\* A file of the largest size, written and read by blocks.
writetest1 ==
  <<creat(N("big"), "rdwr", OK)>>
  \o [i \in 1 .. MAXFILE |-> write(0, Copies(BSIZE, ToString(i)))]
  \o <<writeBad(0), close(0, OK), open(N("big"), "rdonly", OK)>>
  \o [i \in 1 .. MAXFILE |-> read(0, BSIZE, {Copies(BSIZE, ToString(i))})]
  \o <<read(0, BSIZE, {<<>>}), close(0, OK), unlink(N("big"), OK)>>

createtest ==
  <<creat(N("a0"), "rdwr", Whatever), close(0, Whatever), creat(N("a1"), "rdwr", Whatever), close(0, Whatever),
    unlink(N("a0"), Whatever), unlink(N("a1"), Whatever)>>

dirtest == <<
  mkdir(N("dir0"), OK), chdir(N("dir0"), OK), chdir(N(".."), OK), unlink(N("dir0"), OK)>>

exectest == <<exec(N("echo"))>>

\* Writes longer than the pipe; the reader takes what there is until the end.
pipe1 == <<
  pipe,
  fork(<<close(0, OK), write(1, <<"1", "2", "3">>), write(1, <<"4", "5", "6">>)>>),
  close(1, OK), readAll(0, 2, {<<"1", "2", "3", "4", "5", "6">>}), close(0, OK), wait>>

\* Children that loop for ever, one of them after it has written to a pipe, are killed.
preempt == <<
  fork(<<spin>>), fork(<<spin>>), pipe,
  fork(<<close(0, OK), write(1, <<"x">>), close(1, OK), spin>>),
  close(1, OK), read(0, 2, {<<"x">>}), close(0, OK), killAll, wait, wait, wait>>

exitwait == Times(2, <<fork(<<>>), wait>>)

\* Two processes write to the same descriptor: no word is lost.
sharedfd ==
  LET Orders == {d \in [1 .. 4 -> {"c", "p"}] : Cardinality({i \in 1 .. 4 : d[i] = "c"}) = 2}
  IN <<unlink(N("sharedfd"), Whatever), creat(N("sharedfd"), "rdwr", OK),
       fork(Times(2, <<write(0, <<"c">>)>>))>>
     \o Times(2, <<write(0, <<"p">>)>>)
     \o <<wait, close(0, OK), open(N("sharedfd"), "rdonly", OK), readAll(0, 3, Orders),
          close(0, OK), unlink(N("sharedfd"), Whatever)>>

fourfiles ==
  LET Writer(name, word) ==
        <<creat(N(name), "rdwr", OK), write(0, <<word, word>>), write(0, <<word, word, word>>)>>
      Check(name, word) ==
        <<open(N(name), "rdonly", OK), readAll(0, 4, {Copies(5, word)}), close(0, OK),
          unlink(N(name), Whatever)>>
  IN <<unlink(N("f0"), Whatever), fork(Writer("f0", "0")), unlink(N("f1"), Whatever),
       fork(Writer("f1", "1")), wait, wait>> \o Check("f0", "0") \o Check("f1", "1")

createdelete ==
  LET Name(c, i) == N(c \o ToString(i))
      Child(c) ==
        <<creat(Name(c, 0), "rdwr", OK), close(0, OK), creat(Name(c, 1), "rdwr", OK),
          close(0, OK), unlink(Name(c, 1), OK)>>
      Check(c) ==
        <<open(Name(c, 0), "rdonly", OK), close(0, OK), open(Name(c, 1), "rdonly", Bad)>>
  IN <<fork(Child("p")), fork(Child("q")), wait, wait>> \o Check("p") \o Check("q")
     \o <<unlink(Name("p", 0), Whatever), unlink(Name("q", 0), Whatever)>>

unlinkread == <<
  creat(N("unlinkread"), "rdwr", OK), write(0, <<"he", "llo">>), close(0, OK),
  open(N("unlinkread"), "rdwr", OK), unlink(N("unlinkread"), OK),
  creat(N("unlinkread"), "rdwr", {1}), write(1, <<"yyy">>), close(1, OK),
  read(0, 5, {<<"he", "llo">>}), write(0, <<"he", "llo", "!">>), close(0, OK),
  unlink(N("unlinkread"), Whatever)>>

linktest == <<
  unlink(N("lf1"), Whatever), unlink(N("lf2"), Whatever),
  creat(N("lf1"), "rdwr", OK), write(0, <<"he", "llo">>), close(0, OK),
  link(N("lf1"), N("lf2"), OK), unlink(N("lf1"), Whatever), open(N("lf1"), "rdonly", Bad),
  open(N("lf2"), "rdonly", OK), read(0, 5, {<<"he", "llo">>}), close(0, OK),
  link(N("lf2"), N("lf2"), Bad), unlink(N("lf2"), Whatever),
  link(N("lf2"), N("lf1"), Bad), link(Here, N("lf1"), Bad)>>

\* Parent and child make the same name, by link or by creation, and then open and
\* remove it; turns 0, 1, 4 and 6 of the 40 are the four ways to share that out.
concreate ==
  LET Make(i)  == <<creat(N(i), "rdwr", OK), close(0, OK)>>
      Link(i)  == <<link(N("C0"), N(i), Whatever)>>
      Look(i)  == <<open(N(i), "rdonly", Whatever), close(0, Whatever)>>
      Gone(i) == <<unlink(N(i), Whatever)>>
      Turn(child, parent) == <<fork(child)>> \o parent \o <<wait>>
  IN <<unlink(N("C0"), Whatever)>> \o Turn(Make("C0"), Make("C0"))
     \o Turn(Link("C1"), Link("C1")) \o Turn(Make("C4"), Link("C4"))
     \o Turn(Link("C6"), Make("C6"))
     \o <<open(Here, "rdonly", OK),
          readAll(0, 4, {<<".", "..", "README", "cat", "echo", "sh", "C0", "C1", "C4", "C6">>}), close(0, OK)>>
     \o Turn(Look("C0"), Gone("C0")) \o Turn(Gone("C1"), Look("C1"))
     \o Turn(Gone("C4"), Gone("C4")) \o Turn(Look("C6"), Gone("C6"))

\* Each of the two draws its calls at random.
LinkUnlinkCalls == {
  <<creat(N("x"), "rdwr", OK), close(0, OK)>>, <<link(N("cat"), N("x"), Whatever)>>,
  <<unlink(N("x"), Whatever)>>}
linkunlink(c1, c2, p1, p2) ==
  <<unlink(N("x"), Whatever), fork(c1 \o c2)>> \o p1 \o p2 \o <<wait>>

\* Names enough for the indirect block of the root.
bigdir ==
  LET names == <<"x0", "x1", "x2">> IN
  <<unlink(N("bd"), Whatever), creat(N("bd"), "rdonly", OK), close(0, OK)>>
  \o [i \in 1 .. 3 |-> link(N("bd"), N(names[i]), OK)]
  \o <<unlink(N("bd"), Whatever)>> \o [i \in 1 .. 3 |-> unlink(N(names[i]), OK)]

dd(name)  == Rel(<<"dd", name>>)
ddd(name) == Rel(<<"dd", "dd", name>>)

\* What the directories and files of subdir refuse.
refusals ==
  LET under(name) == Rel(<<"dd", name, "ff">>) IN <<
  creat(under("ff"), "rdwr", Bad),
  creat(under("xx"), "rdwr", Bad), creat(N("dd"), "rdonly", Bad),
  open(N("dd"), "rdwr", Bad), open(N("dd"), "wronly", Bad),
  link(under("ff"), ddd("xx"), Bad), link(under("xx"), ddd("xx"), Bad),
  link(dd("ff"), ddd("ffff"), Bad),
  mkdir(under("ff"), Bad), mkdir(under("xx"), Bad), mkdir(ddd("ffff"), Bad),
  unlink(under("xx"), Bad), unlink(under("ff"), Bad),
  chdir(dd("ff"), Bad), chdir(dd("xx"), Bad)>>

subdir == <<
  unlink(N("ff"), Whatever), mkdir(N("dd"), OK),
  creat(dd("ff"), "rdwr", OK), write(0, <<"ff">>), close(0, OK),
  unlink(N("dd"), Bad), mkdir(Abs(<<"dd", "dd">>), OK),
  creat(ddd("ff"), "rdwr", OK), write(0, <<"FF">>), close(0, OK),
  open(Rel(<<"dd", "dd", "..", "ff">>), "rdonly", OK), read(0, 2, {<<"ff">>}), close(0, OK),
  link(ddd("ff"), ddd("ffff"), OK), unlink(ddd("ff"), OK), open(ddd("ff"), "rdonly", Bad),
  chdir(N("dd"), OK), chdir(Rel(<<"dd", "..", "..", "dd">>), OK),
  chdir(Rel(<<"dd", "..", "..", "..", "dd">>), OK), chdir(Rel(<<".", "..">>), OK),
  open(ddd("ffff"), "rdonly", OK), read(0, 2, {<<"FF">>}), close(0, OK),
  open(ddd("ff"), "rdonly", Bad)>>
  \o refusals \o <<
  unlink(ddd("ffff"), OK), unlink(dd("ff"), OK), unlink(N("dd"), Bad),
  unlink(dd("dd"), OK), unlink(N("dd"), OK)>>

\* Writes of one, and of more, of filewrite's transactions.
bigwrite ==
  <<unlink(N("bigwrite"), Whatever)>> \o FlattenSeq([i \in 1 .. 2 |->
    <<creat(N("bigwrite"), "rdwr", OK)>> \o Times(2, <<write(0, Copies(i * MaxGroup, "b"))>>)
    \o <<close(0, OK), unlink(N("bigwrite"), Whatever)>>])

bigfile ==
  LET words == FlattenSeq([i \in 1 .. 5 |-> Copies(3, ToString(i))]) IN
  <<unlink(N("bigfile"), Whatever), creat(N("bigfile"), "rdwr", OK)>>
  \o [i \in 1 .. 5 |-> write(0, Copies(3, ToString(i)))]
  \o <<close(0, OK), open(N("bigfile"), "rdonly", OK), readAll(0, 2, {words}),
       close(0, OK), unlink(N("bigfile"), Whatever)>>

\* A path of names of the given lengths: skipelem cuts names at 14 characters.
Lengths(lengths) ==
  Rel([i \in 1 .. Len(lengths) |-> "name" \o ToString(Min({lengths[i], 14}))])

\* Names of 14 and of more characters are one.
fourteen ==
  LET P(lengths) == Lengths(lengths) IN <<
  mkdir(P(<<14>>), OK), mkdir(P(<<14, 15>>), OK),
  creat(P(<<15, 15, 15>>), "rdonly", OK), close(0, OK),
  open(P(<<14, 14, 14>>), "rdonly", OK), close(0, OK),
  mkdir(P(<<14, 14>>), Bad), mkdir(P(<<15, 14>>), Bad)>>

rmdot == <<
  mkdir(N("dots"), OK), chdir(N("dots"), OK), unlink(N("."), Bad), unlink(N(".."), Bad),
  chdir(Root, OK), unlink(Rel(<<"dots", ".">>), Bad), unlink(Rel(<<"dots", "..">>), Bad),
  unlink(N("dots"), OK)>>

dirfile ==
  LET xx == Rel(<<"dirfile", "xx">>) IN <<
  creat(N("dirfile"), "rdonly", OK), close(0, OK), chdir(N("dirfile"), Bad),
  open(xx, "rdonly", Bad), creat(xx, "rdonly", Bad), mkdir(xx, Bad), unlink(xx, Bad),
  link(N("README"), xx, Bad), unlink(N("dirfile"), OK),
  open(Here, "rdwr", Bad), open(Here, "rdonly", OK), writeBad(0), close(0, OK)>>

\* One turn more than the cache has entries.
iref ==
  Times(NINODE + 1, <<
    mkdir(N("irefd"), OK), chdir(N("irefd"), OK),
    mkdir(Rel(<<>>), Whatever), link(N("README"), Rel(<<>>), Whatever), creat(Rel(<<>>), "rdonly", Bad),
    creat(N("xx"), "rdonly", Whatever), close(0, Whatever), unlink(N("xx"), Whatever)>>)
  \o <<chdir(Root, Whatever)>>

\* More forks than there are processes.
forktest ==
  Times(NPROC - 1, <<fork(<<>>)>>) \o <<forkBad>> \o Times(NPROC - 1, <<wait>>) \o <<waitBad>>

\* Files as large as they can be, until there is no block; the kernel stops there, and
\* main does not call it.
fsfull ==
  LET Full(name) == <<creat(N(name), "rdwr", Whatever)>>
        \o Times(MAXFILE + 1, <<[write(0, Copies(BSIZE, "f")) EXCEPT !.want = Whatever]>>)
        \o <<close(0, Whatever)>>
      names == <<"f0", "f1", "f2", "f3">>
  IN FlattenSeq([i \in 1 .. Len(names) |-> Full(names[i])])
     \o [i \in 1 .. Len(names) |-> unlink(N(names[i]), Whatever)]

\* main: it runs once on a file system, and the tests one after the other, each with
\* what the others have left; those that need two processes are scenarios of their own.
usertests ==
  <<open(N("usertests.ran"), "rdonly", Bad), creat(N("usertests.ran"), "rdonly", OK), close(0, OK)>>
  \o bigwrite \o opentest \o writetest \o writetest1 \o createtest \o iputtest \o rmdot
  \o fourteen \o subdir \o linktest \o unlinkread \o dirfile \o exectest

-----------------------------------------------------------------------------
(* stressfs.c, with one fork                                               *)

stressfs ==
  LET Rest(name) ==
        <<creat(N(name), "rdwr", OK), write(0, <<"a">>), write(0, <<"a">>), close(0, OK),
          open(N(name), "rdonly", OK), read(0, 1, {<<"a">>}), read(0, 1, {<<"a">>}),
          close(0, OK), waitAny>>
  IN <<fork(Rest("stressfs1"))>> \o Rest("stressfs0")

-----------------------------------------------------------------------------
(* init.c, and sh.c's runcmd as operators on programs                      *)

Redir(fd, call, cmd) == <<close(fd, OK), call>> \o cmd
List(left, right) == <<fork(left), wait>> \o right
Back(cmd) == <<fork(cmd)>>
Pipeline(left, right) == <<
  pipe,
  fork(<<close(1, OK), dup(4, {1}), close(3, OK), close(4, OK)>> \o left),
  fork(<<close(0, OK), dup(3, OK), close(3, OK), close(4, OK)>> \o right),
  close(3, OK), close(4, OK), wait, wait>>

\* Commands: the shell looks for them in its current directory.
echo(words)     == <<exec(N("echo")), write(1, words)>>
catFile(name, data) == <<exec(N("cat")), open(N(name), "rdonly", {3}), readAll(3, 2, {data}),
                     write(1, data), close(3, OK)>>
catInput(data)  == <<exec(N("cat")), readAll(0, 2, {data}), write(1, data)>>
rm(path)        == <<unlink(path, Whatever)>>
ln(old, path)   == <<link(old, path, Whatever)>>
mkdirCmd(path)  == <<mkdir(path, Whatever)>>

\* stat of ulib.c, and ls of the root: each entry is looked up again by its name.
stat(name) == <<open(N(name), "rdonly", {-1, 1}), fstat(1, -1 .. 2), close(1, OK \cup Bad)>>
ls ==
  LET names == <<".", "..">> \o ImageNames IN
  <<open(Here, "rdonly", OK), fstat(0, {1})>>
  \o FlattenSeq([i \in 1 .. Len(names) |-> <<readSome(0, 1, {1})>> \o stat(names[i])])
  \o <<readSome(0, 1, {0, 1}), close(0, OK)>>

\* wc and grep read to the end, a buffer at a time; what they count and find is the data's.
wc(name)   == <<open(N(name), "rdonly", {3}), readAll(3, 2, {Bytes(name)}),
                write(1, <<"counts">>), close(3, OK)>>
grep(data) == <<readAll(0, 1, {data}), write(1, data)>>

\* A child that exits before its parent, who does not wait for it.
zombie == <<fork(<<>>)>>

\* The shell makes sure of its three descriptors, and then runs command after command.
sh(cmds) ==
  <<open(N("console"), "rdwr", {3}), close(3, OK)>>
  \o FlattenSeq([i \in 1 .. Len(cmds) |-> <<fork(cmds[i]), wait>>])

init(cmds) == <<
  open(N("console"), "rdwr", Bad), mknod(N("console"), OK), open(N("console"), "rdwr", OK),
  dup(0, {1}), dup(0, {2}), fork(<<exec(N("sh"))>> \o sh(cmds)), wait>>

\* echo hi ho > f;  cat f | cat;  cat f; rm f;  wc README | grep counts;  zombie  and
\* ln README f &
session == init(<<
  Redir(1, creat(N("f"), "wronly", {1}), echo(<<"hi", "ho">>)),
  Pipeline(catFile("f", <<"hi", "ho">>), catInput(<<"hi", "ho">>)),
  List(catFile("f", <<"hi", "ho">>), rm(N("f"))),
  Pipeline(wc("README"), grep(<<"counts">>)),
  zombie,
  Back(ln(N("README"), N("f")))>>)

-----------------------------------------------------------------------------
(* Commands in the background, which work on the same directory            *)

d    == N("d")
In(name) == Rel(<<"d", name>>)
Jobs == {
  rm(d), rm(In("f")), mkdirCmd(In("e")), ln(N("README"), In("f")),
  <<creat(In("f"), "rdwr", Whatever), close(0, Whatever)>>,
  \* cd d, and then something there
  <<chdir(d, Whatever), creat(N("f"), "rdwr", Whatever)>>,
  <<chdir(d, Whatever), unlink(Rel(<<"..", "d">>), Whatever), mkdir(N("e"), Whatever)>>,
  <<chdir(d, Whatever), chdir(N(".."), Whatever)>>}

jobs(j, k) == <<mkdir(d, OK), fork(j)>> \o k \o <<waitAny>>

\* ls while a file is removed and another is made in its place.
listing == <<fork(rm(N("cat")) \o <<creat(N("f"), "rdwr", OK)>>)>> \o ls \o <<wait>>

\* Three processes: the last close of a removed file, its removal, and a new file that
\* takes its inode.
reuse == <<
  creat(N("f"), "rdwr", OK), fork(<<close(0, OK), creat(N("g"), "rdwr", OK), write(0, <<"g">>)>>),
  fork(<<read(0, 1, {<<>>}), close(0, OK)>>), unlink(N("f"), OK), close(0, OK), wait, wait,
  open(N("g"), "rdonly", OK), readAll(0, 1, {<<"g">>}), fstat(0, {1})>>

\* Descriptors: the lowest is taken, none is left, and each is good for its mode only.
descriptors == <<
  creat(N("f"), "wronly", OK), write(0, <<"w">>), readBad(0), dup(0, {1}), fstat(1, {1}),
  close(0, OK), open(N("f"), "rdonly", OK), writeBad(0), read(0, 1, {<<"w">>}), fstat(4, Bad),
  dup(0, {2}), dup(0, {3}), dup(0, {4}), dup(0, Bad), open(N("f"), "rdonly", Bad)>>

\* "ln README .": dirlink puts the directory that it has locked, and waits for itself.
linkdot == <<link(N("README"), Here, Bad)>>

\* The directory above the current one is removed, and then walked through.
removed == <<
  mkdir(N("a"), OK), mkdir(Rel(<<"a", "b">>), OK), chdir(Rel(<<"a", "b">>), OK),
  unlink(Rel(<<"..", "..", "a", "b">>), OK), unlink(Rel(<<"..", "..", "a">>), OK),
  chdir(N(".."), Whatever)>>
removing == <<
  mkdir(N("a"), OK), mkdir(Rel(<<"a", "b">>), OK),
  fork(<<unlink(Rel(<<"a", "b">>), OK), unlink(N("a"), OK)>>),
  open(Rel(<<"a", "b", "..", "x">>), "rdonly", Bad), wait>>
==============================================================================

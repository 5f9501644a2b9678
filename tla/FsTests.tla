------------------------------ MODULE FsTests -------------------------------
(***************************************************************************)
(* The programs that processes of Fs run: the file system tests of         *)
(* user/usertests.c and of the small programs beside it, each as the       *)
(* sequence of its system calls with the results it insists on.            *)
(*                                                                         *)
(* Descriptor numbers are the ones the calls return: the lowest free ones, *)
(* without the three of the console.  Loops are unrolled a few times;      *)
(* contents are sequences of units, as long as the small disk allows.  A   *)
(* test that gives up after a failed call has no other call after it, so a *)
(* script simply goes on.                                                  *)
(***************************************************************************)
EXTENDS Integers, Sequences

ok == <<"ok">>
fail == <<"fail">>
\* A call that must not fail, must fail, or may do either.
good == {ok}
bad == {fail}
any == {}

sys(op) == [op |-> op, path |-> <<>>, path2 |-> <<>>, mode |-> {}, fd |-> 0, n |-> 0,
            data |-> <<>>, ok |-> TRUE, exp |-> any, child |-> <<>>]

open(path, mode, exp) == <<[sys("open") EXCEPT !.path = path, !.mode = mode, !.exp = exp]>>
close(fd) == <<[sys("close") EXCEPT !.fd = fd]>>
dup(fd) == <<[sys("dup") EXCEPT !.fd = fd]>>
mkdir(path, exp) == <<[sys("mkdir") EXCEPT !.path = path, !.exp = exp]>>
mknod(path, exp) == <<[sys("mknod") EXCEPT !.path = path, !.exp = exp]>>
chdir(path, exp) == <<[sys("chdir") EXCEPT !.path = path, !.exp = exp]>>
unlink(path, exp) == <<[sys("unlink") EXCEPT !.path = path, !.exp = exp]>>
link(old, new, exp) == <<[sys("link") EXCEPT !.path = old, !.path2 = new, !.exp = exp]>>
fstat(fd, type) == <<[sys("fstat") EXCEPT !.fd = fd, !.exp = {<<type>>}]>>
read(fd, n, exp) == <<[sys("read") EXCEPT !.fd = fd, !.n = n, !.exp = exp]>>
write(fd, s, exp) ==
  <<[sys("write") EXCEPT !.fd = fd, !.exp = exp,
                         !.data = [k \in DOMAIN s |-> <<s[k], 0>>]]>>
\* write() from memory that the process does not have.
badwr(fd) == <<[sys("write") EXCEPT !.fd = fd, !.data = <<<<"x", 0>>>>, !.ok = FALSE]>>
fork(child) == <<[sys("fork") EXCEPT !.child = child]>>
wait == <<[sys("wait") EXCEPT !.exp = good]>>
\* for(;;) pause(1000): until the machine is stopped.
pause == <<sys("pause")>>

create == {"create"}
creat_rw == {"create", "rw"}
creat_w == {"create", "w"}
creat_wt == {"create", "w", "trunc"}
creat_rwt == {"create", "rw", "trunc"}
rdonly == {}
wronly == {"w"}
rdwr == {"rw"}

\* close(open(path, mode)), with mode such that the open succeeds.
touch(path, mode) == open(path, mode, good) \o close(0)

-----------------------------------------------------------------------------
\* Contents.

truncate1 ==
  unlink(<<"truncfile">>, any)
  \o open(<<"truncfile">>, creat_wt, any) \o write(0, <<"a", "b">>, any) \o close(0)
  \o open(<<"truncfile">>, rdonly, any) \o read(0, 4, {<<"a", "b">>})
  \o open(<<"truncfile">>, {"w", "trunc"}, any)
  \o open(<<"truncfile">>, rdonly, any) \o read(2, 4, {<<>>})
  \o read(0, 4, {<<>>})
  \o write(1, <<"a", "b", "c">>, any)
  \o read(2, 4, {<<"a", "b", "c">>})
  \o read(0, 4, {<<"c">>})
  \o unlink(<<"truncfile">>, any)
  \o close(1) \o close(0) \o close(2)

truncate2 ==
  unlink(<<"truncfile">>, any)
  \o open(<<"truncfile">>, creat_wt, any) \o write(0, <<"a", "b">>, any)
  \o open(<<"truncfile">>, {"w", "trunc"}, any)
  \o write(0, <<"x">>, bad)
  \o unlink(<<"truncfile">>, any) \o close(0) \o close(1)

truncate3 ==
  open(<<"truncfile">>, creat_wt, any) \o close(0)
  \o fork(open(<<"truncfile">>, wronly, good) \o write(0, <<"1", "2">>, good) \o close(0)
          \o open(<<"truncfile">>, rdonly, any) \o read(0, 2, any) \o close(0))
  \o open(<<"truncfile">>, creat_wt, good) \o write(0, <<"x">>, good) \o close(0)
  \o wait \o unlink(<<"truncfile">>, any)

writetest ==
  open(<<"small">>, creat_rw, good)
  \o write(0, <<"a">>, good) \o write(0, <<"b">>, good)
  \o write(0, <<"a">>, good) \o write(0, <<"b">>, good) \o close(0)
  \o open(<<"small">>, rdonly, good) \o read(0, 4, {<<"a", "b", "a", "b">>})
  \o close(0) \o unlink(<<"small">>, good)

\* A file of MAXFILE blocks.
writebig ==
  open(<<"big">>, creat_rw, good)
  \o write(0, <<"0", "0">>, good) \o write(0, <<"1", "1">>, good)
  \o write(0, <<"2", "2">>, good) \o write(0, <<"3", "3">>, good) \o close(0)
  \o open(<<"big">>, rdonly, good)
  \o read(0, 2, {<<"0", "0">>}) \o read(0, 2, {<<"1", "1">>})
  \o read(0, 2, {<<"2", "2">>}) \o read(0, 2, {<<"3", "3">>}) \o read(0, 2, {<<>>})
  \o close(0) \o unlink(<<"big">>, good)

\* Writes longer than one transaction.
bigwrite ==
  unlink(<<"bigwrite">>, any)
  \o open(<<"bigwrite">>, creat_rw, good)
  \o write(0, <<"0", "1", "2">>, good) \o write(0, <<"3", "4", "5">>, good)
  \o close(0) \o unlink(<<"bigwrite">>, any)

bigfile ==
  unlink(<<"bigfile.dat">>, any)
  \o open(<<"bigfile.dat">>, creat_rw, good)
  \o write(0, <<"0", "0">>, good) \o write(0, <<"1", "1">>, good) \o close(0)
  \o open(<<"bigfile.dat">>, rdonly, good)
  \o read(0, 1, {<<"0">>}) \o read(0, 1, {<<"0">>})
  \o read(0, 1, {<<"1">>}) \o read(0, 1, {<<"1">>}) \o read(0, 1, {<<>>})
  \o close(0) \o unlink(<<"bigfile.dat">>, any)

\* The offset is shared and writes do not overlap.
sharedfd ==
  unlink(<<"sharedfd">>, any)
  \o open(<<"sharedfd">>, creat_rw, good)
  \o fork(write(0, <<"c">>, good) \o write(0, <<"c">>, good))
  \o write(0, <<"p">>, good) \o write(0, <<"p">>, good) \o wait
  \o close(0) \o open(<<"sharedfd">>, rdonly, good)
  \o read(0, 5, {s \in [1..4 -> {"c", "p"}] : \E a, b \in 1..4 : a # b
                    /\ \A k \in 1..4 : s[k] = "c" <=> k \in {a, b}})
  \o close(0) \o unlink(<<"sharedfd">>, any)

\* A child writes a file of its own.
fourfiles_child(f, d) ==
  unlink(<<f>>, any)
  \o fork(open(<<f>>, creat_rw, good) \o write(0, <<d, d>>, good) \o write(0, <<d>>, good))
fourfiles_check(f, d) ==
  open(<<f>>, rdonly, any) \o read(0, 4, {<<d, d, d>>}) \o read(0, 4, {<<>>})
  \o close(0) \o unlink(<<f>>, any)
fourfiles ==
  fourfiles_child("f0", "0") \o fourfiles_child("f1", "1") \o wait \o wait
  \o fourfiles_check("f0", "0") \o fourfiles_check("f1", "1")

\* Each child writes its file again and again.
manywrites_child(f) ==
  fork(unlink(<<f>>, any)
       \o open(<<f>>, creat_rw, good) \o write(0, <<"a", "b", "c">>, good) \o close(0)
       \o unlink(<<f>>, any) \o unlink(<<f>>, any))
manywrites == manywrites_child("ba") \o manywrites_child("bb") \o wait \o wait

stressfs ==
  LET main(path) ==
        open(<<path>>, creat_rw, any) \o write(0, <<"a">>, any) \o write(0, <<"a">>, any)
        \o close(0) \o open(<<path>>, rdonly, any) \o read(0, 1, any) \o read(0, 1, any)
        \o close(0)
  IN  fork(main("stressfs1")) \o main("stressfs0") \o wait

logstress ==
  LET child(f, d) == fork(open(<<f>>, creat_rw, good) \o write(0, <<d, d, d>>, good))
  IN  child("f1", "1") \o child("f2", "2") \o wait \o wait

-----------------------------------------------------------------------------
\* Names, links and directories.

iputtest ==
  mkdir(<<"iputdir">>, good) \o chdir(<<"iputdir">>, good)
  \o unlink(<<"..", "iputdir">>, good) \o chdir(<<"/">>, good)

exitiputtest ==
  fork(mkdir(<<"iputdir">>, good) \o chdir(<<"iputdir">>, good)
       \o unlink(<<"..", "iputdir">>, good))
  \o wait

openiputtest ==
  mkdir(<<"oidir">>, good)
  \o fork(open(<<"oidir">>, rdwr, bad))
  \o unlink(<<"oidir">>, good) \o wait

opentest == touch(<<"README">>, rdonly) \o open(<<"doesnotexist">>, rdonly, bad)

createtest ==
  open(<<"a0">>, creat_rw, any) \o close(0) \o open(<<"a1">>, creat_rw, any) \o close(0)
  \o unlink(<<"a0">>, any) \o unlink(<<"a1">>, any)

dirtest ==
  mkdir(<<"dir0">>, good) \o chdir(<<"dir0">>, good) \o chdir(<<"..">>, good)
  \o unlink(<<"dir0">>, good)

\* Child pi creates three files and removes the second.
createdelete ==
  LET child(a, b, c) ==
        fork(touch(<<a>>, creat_rw) \o touch(<<b>>, creat_rw) \o touch(<<c>>, creat_rw)
             \o unlink(<<b>>, good))
  IN  child("p0", "p1", "p2") \o wait
      \o touch(<<"p0">>, rdonly) \o open(<<"p1">>, rdonly, bad) \o touch(<<"p2">>, rdonly)
      \o unlink(<<"p0">>, any) \o unlink(<<"p1">>, any) \o unlink(<<"p2">>, any)

\* Children create and delete different files in the same directory at a time.
createdelete2 ==
  LET child(a) == fork(touch(<<a>>, creat_rw) \o unlink(<<a>>, good))
  IN  child("p0") \o child("q0") \o wait \o wait
      \o open(<<"p0">>, rdonly, bad) \o open(<<"q0">>, rdonly, bad)

unlinkread ==
  open(<<"unlinkread">>, creat_rw, good) \o write(0, <<"h", "e">>, any) \o close(0)
  \o open(<<"unlinkread">>, rdwr, good) \o unlink(<<"unlinkread">>, good)
  \o open(<<"unlinkread">>, creat_rw, any) \o write(1, <<"y">>, any) \o close(1)
  \o read(0, 4, {<<"h", "e">>}) \o write(0, <<"h", "e", "x">>, good)
  \o close(0) \o unlink(<<"unlinkread">>, any)

linktest ==
  unlink(<<"lf1">>, any) \o unlink(<<"lf2">>, any)
  \o open(<<"lf1">>, creat_rw, good) \o write(0, <<"h", "e">>, good) \o close(0)
  \o link(<<"lf1">>, <<"lf2">>, good) \o unlink(<<"lf1">>, any)
  \o open(<<"lf1">>, rdonly, bad)
  \o open(<<"lf2">>, rdonly, good) \o read(0, 4, {<<"h", "e">>}) \o close(0)
  \o link(<<"lf2">>, <<"lf2">>, bad)
  \o unlink(<<"lf2">>, any) \o link(<<"lf2">>, <<"lf1">>, bad)
  \o link(<<".">>, <<"lf1">>, bad)

\* Turn i: one process creates the file, the other links to C0 or creates it too.
concreate ==
  LET turn(file, parent, child) == unlink(<<file>>, any) \o fork(child) \o parent \o wait
      use(file) == open(<<file>>, rdonly, any) \o close(0)
      drop(file) == unlink(<<file>>, any) \o unlink(<<file>>, any)
  IN  turn("C0", touch(<<"C0">>, creat_rw), touch(<<"C0">>, creat_rw))
      \o turn("C1", link(<<"C0">>, <<"C1">>, any), link(<<"C0">>, <<"C1">>, any))
      \o open(<<".">>, rdonly, any)
      \o read(0, 6, {<<".", "..", "README", "C0", "C1">>}) \o close(0)
      \o fork(use("C0")) \o drop("C0") \o wait
      \o fork(drop("C1")) \o use("C1") \o wait

\* Two of the three kinds of step in each process, in every order.
linkunlink(s, t) == unlink(<<"x">>, any) \o fork(s) \o t \o wait
linkunlink_steps ==
  {touch(<<"x">>, creat_rw), link(<<"README">>, <<"x">>, any), unlink(<<"x">>, any)}
linkunlinks == {linkunlink(s \o t, u) : s, t, u \in linkunlink_steps}

subdir ==
  unlink(<<"ff">>, any) \o mkdir(<<"dd">>, good)
  \o open(<<"dd", "ff">>, creat_rw, good) \o write(0, <<"f", "f">>, any) \o close(0)
  \o unlink(<<"dd">>, bad)
  \o mkdir(<<"/", "dd", "dd">>, good)
  \o open(<<"dd", "dd", "ff">>, creat_rw, good) \o write(0, <<"F", "F">>, any) \o close(0)
  \o open(<<"dd", "dd", "..", "ff">>, rdonly, good) \o read(0, 4, {<<"f", "f">>}) \o close(0)
  \o link(<<"dd", "dd", "ff">>, <<"dd", "dd", "ffff">>, good)
  \o unlink(<<"dd", "dd", "ff">>, good)
  \o open(<<"dd", "dd", "ff">>, rdonly, bad)
  \o chdir(<<"dd">>, good) \o chdir(<<"dd", "..", "..", "dd">>, good)
  \o chdir(<<"dd", "..", "..", "..", "dd">>, good) \o chdir(<<".", "..">>, good)
  \o open(<<"dd", "dd", "ffff">>, rdonly, good) \o read(0, 4, {<<"F", "F">>}) \o close(0)
  \o open(<<"dd", "dd", "ff">>, rdonly, bad)
  \o open(<<"dd", "ff", "ff">>, creat_rw, bad) \o open(<<"dd", "xx", "ff">>, creat_rw, bad)
  \o open(<<"dd">>, create, bad) \o open(<<"dd">>, rdwr, bad) \o open(<<"dd">>, wronly, bad)
  \o link(<<"dd", "ff", "ff">>, <<"dd", "dd", "xx">>, bad)
  \o link(<<"dd", "xx", "ff">>, <<"dd", "dd", "xx">>, bad)
  \o link(<<"dd", "ff">>, <<"dd", "dd", "ffff">>, bad)
  \o mkdir(<<"dd", "ff", "ff">>, bad) \o mkdir(<<"dd", "xx", "ff">>, bad)
  \o mkdir(<<"dd", "dd", "ffff">>, bad)
  \o unlink(<<"dd", "xx", "ff">>, bad) \o unlink(<<"dd", "ff", "ff">>, bad)
  \o chdir(<<"dd", "ff">>, bad) \o chdir(<<"dd", "xx">>, bad)
  \o unlink(<<"dd", "dd", "ffff">>, good) \o unlink(<<"dd", "ff">>, good)
  \o unlink(<<"dd">>, bad) \o unlink(<<"dd", "dd">>, good) \o unlink(<<"dd">>, good)

\* Elements are cut after DIRSIZ characters.
fourteen ==
  mkdir(<<"n14">>, good) \o mkdir(<<"n14", "n15">>, good)
  \o touch(<<"n15", "n15", "n15">>, create)
  \o touch(<<"n14", "n14", "n14">>, rdonly)
  \o mkdir(<<"n14", "n14">>, bad) \o mkdir(<<"n15", "n14">>, bad)
  \o unlink(<<"n15", "n14">>, any) \o unlink(<<"n14", "n14">>, any)
  \o unlink(<<"n14", "n14", "n14">>, any) \o unlink(<<"n15", "n15", "n15">>, any)
  \o unlink(<<"n14", "n15">>, any) \o unlink(<<"n14">>, any)

rmdot ==
  mkdir(<<"dots">>, good) \o chdir(<<"dots">>, good)
  \o unlink(<<".">>, bad) \o unlink(<<"..">>, bad) \o chdir(<<"/">>, good)
  \o unlink(<<"dots", ".">>, bad) \o unlink(<<"dots", "..">>, bad)
  \o unlink(<<"dots">>, good)

dirfile ==
  touch(<<"dirfile">>, create) \o chdir(<<"dirfile">>, bad)
  \o open(<<"dirfile", "xx">>, rdonly, bad) \o open(<<"dirfile", "xx">>, create, bad)
  \o mkdir(<<"dirfile", "xx">>, bad) \o unlink(<<"dirfile", "xx">>, bad)
  \o link(<<"README">>, <<"dirfile", "xx">>, bad) \o unlink(<<"dirfile">>, good)
  \o open(<<".">>, rdwr, bad) \o open(<<".">>, rdonly, any) \o write(0, <<"x">>, bad)
  \o close(0)

iref ==
  LET turn == mkdir(<<"irefd">>, good) \o chdir(<<"irefd">>, good)
              \o mkdir(<<>>, any) \o link(<<"README">>, <<>>, any)
              \o open(<<>>, create, any)
              \o open(<<"xx">>, create, any) \o close(0) \o unlink(<<"xx">>, any)
      undo == chdir(<<"..">>, any) \o unlink(<<"irefd">>, any)
  IN  turn \o turn \o undo \o undo \o chdir(<<"/">>, any)

\* A directory that needs its indirect block.
bigdir ==
  unlink(<<"bd">>, any) \o touch(<<"bd">>, create)
  \o link(<<"bd">>, <<"x0">>, good) \o link(<<"bd">>, <<"x1">>, good)
  \o unlink(<<"bd">>, any) \o unlink(<<"x0">>, good) \o unlink(<<"x1">>, good)

-----------------------------------------------------------------------------
\* Full disks.

badwrite ==
  LET turn == open(<<"junk">>, creat_w, good) \o badwr(0) \o close(0) \o unlink(<<"junk">>, any)
  IN  unlink(<<"junk">>, any) \o turn \o turn
      \o open(<<"junk">>, creat_w, good) \o write(0, <<"x">>, good) \o close(0)
      \o unlink(<<"junk">>, any)

\* Files until a write fails, whose descriptor is closed twice; then names until
\* the directory cannot grow.
diskfull ==
  LET fill(name) == unlink(<<name>>, any) \o open(<<name>>, creat_rwt, good)
      names == open(<<"zz0">>, creat_rwt, any) \o close(0)
               \o open(<<"zz1">>, creat_rwt, any) \o close(0)
  IN  unlink(<<"diskfulldir">>, any)
      \o fill("big0") \o write(0, <<"0", "0">>, any) \o write(0, <<"0", "0">>, any)
      \o write(0, <<"0", "0">>, any) \o write(0, <<"0", "0">>, any) \o close(0)
      \o fill("big1") \o write(0, <<"1", "1">>, any) \o close(0) \o close(0)
      \o names \o mkdir(<<"diskfulldir">>, bad) \o unlink(<<"diskfulldir">>, any)
      \o unlink(<<"zz0">>, any) \o unlink(<<"zz1">>, any)
      \o unlink(<<"big0">>, any) \o unlink(<<"big1">>, any)

fsfull ==
  open(<<"f0">>, creat_rw, any)
  \o write(0, <<"0", "0">>, any) \o write(0, <<"0", "0">>, any)
  \o write(0, <<"0", "0">>, any) \o write(0, <<"0", "0">>, any) \o write(0, <<"0", "0">>, bad)
  \o close(0)
  \o open(<<"f1">>, creat_rw, any) \o write(0, <<"1", "1">>, any) \o close(0)
  \o unlink(<<"f1">>, any) \o unlink(<<"f0">>, any)

outofinodes ==
  LET turn(name) == unlink(<<name>>, any) \o open(<<name>>, creat_rwt, any) \o close(0)
  IN  turn("zz0") \o turn("zz1") \o turn("zz2") \o turn("zz3") \o turn("zz4")
      \o unlink(<<"zz0">>, any) \o unlink(<<"zz1">>, any) \o unlink(<<"zz2">>, any)
      \o unlink(<<"zz3">>, any) \o unlink(<<"zz4">>, any)

-----------------------------------------------------------------------------
\* Programs that leave something open when the machine stops.

forphan ==
  open(<<"file0">>, creat_w, good) \o fstat(0, "file") \o unlink(<<"file0">>, good)
  \o open(<<"file0">>, rdonly, bad) \o pause

dorphan ==
  mkdir(<<"dd">>, good) \o chdir(<<"dd">>, good) \o unlink(<<"..", "dd">>, good) \o pause

\* init: the console is made if it is not there, and is descriptor 0, 1 and 2.
init ==
  open(<<"console">>, rdwr, any) \o mknod(<<"console">>, any) \o open(<<"console">>, rdwr, any)
  \o dup(0) \o dup(0)
=============================================================================

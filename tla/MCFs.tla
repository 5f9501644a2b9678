-------------------------------- MODULE MCFs --------------------------------
(* Fs on a small disk, with the scripts of FsTests.                        *)
EXTENDS Fs, FsTests

\* mkfs: a root directory with one file, README.
MCInitDisk ==
  LET root == [type |-> "dir", nlink |-> 1, size |-> 3,
               addrs |-> [k \in 0..NDIRECT |-> CASE k = 0 -> 1 [] k = 1 -> 2 [] OTHER -> 0]]
      readme == [type |-> "file", nlink |-> 1, size |-> 1,
                 addrs |-> [k \in 0..NDIRECT |-> IF k = 0 THEN 3 ELSE 0]]
  IN  [dino |-> [i \in Inums |-> CASE i = 1 -> root [] i = 2 -> readme [] OTHER -> Fresh("free")],
       blk |-> [b \in Blocks |->
                  CASE b = 1 -> [ZeroBlock EXCEPT ![0] = <<".", 1>>, ![1] = <<"..", 1>>]
                    [] b = 2 -> [ZeroBlock EXCEPT ![0] = <<"README", 2>>]
                    [] b = 3 -> [ZeroBlock EXCEPT ![0] = <<"r", 0>>]
                    [] OTHER -> ZeroBlock],
       used |-> {1, 2, 3}]

Sequential ==
  {truncate1, truncate2, writetest, writebig, bigwrite, bigfile, iputtest, opentest,
   createtest, dirtest, unlinkread, linktest, subdir, fourteen, rmdot, dirfile, iref, bigdir,
   badwrite, diskfull, fsfull, outofinodes, forphan, dorphan, init}
Concurrent ==
  {truncate3, sharedfd, fourfiles, manywrites, stressfs, logstress, exitiputtest,
   openiputtest, createdelete, createdelete2, concreate} \cup linkunlinks

\* A pair of calls made at the same time, on an empty directory or on a file in one.
Race(setup, a, b) == setup \o fork(a) \o b \o wait
OnDir ==
  <<unlink(<<"d">>, any), open(<<"d", "g">>, create, any), mkdir(<<"d", "e">>, any),
   chdir(<<"d">>, any), open(<<"d", "..", "README">>, rdonly, any),
   link(<<"README">>, <<"d", "g">>, any), unlink(<<"d", "..">>, any)>>
OnFile ==
  <<unlink(<<"d", "f">>, any), open(<<"d", "f">>, {"w", "trunc"}, any) \o write(0, <<"z">>, any),
   open(<<"d", "f">>, creat_rw, any), link(<<"d", "f">>, <<"d", "g">>, any),
   link(<<"d", "f">>, <<"g">>, any), unlink(<<"d">>, any)>>
Pairs(s) == {x \in (DOMAIN s) \X (DOMAIN s) : x[1] <= x[2]}
Races ==
  {Race(mkdir(<<"d">>, good), OnDir[x[1]], OnDir[x[2]]) : x \in Pairs(OnDir)}
    \cup {Race(mkdir(<<"d">>, good) \o touch(<<"d", "f">>, create), OnFile[x[1]], OnFile[x[2]])
            : x \in Pairs(OnFile)}

\* The ".." of a removed directory names an inode that is free.
DeadParent ==
  mkdir(<<"a">>, good) \o mkdir(<<"a", "b">>, good) \o chdir(<<"a", "b">>, good)
  \o unlink(<<"..", "b">>, good) \o unlink(<<"/", "a">>, good)
  \o open(<<"..", "x">>, rdonly, any)

MCPrograms == Sequential \cup Concurrent \cup Races \cup {DeadParent}
=============================================================================

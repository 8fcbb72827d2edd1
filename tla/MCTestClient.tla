---------------------------- MODULE MCTestClient ----------------------------
(***************************************************************************)
(* The test client and the tunnel for TLC: the smallest buffers of         *)
(* different sizes, with just as many keep-alives and packets as it takes  *)
(* to fill them, and names with dots in all places.                        *)
(***************************************************************************)
EXTENDS TestClient

\* www.baidu.com, which do_client asks for; then "", ".a." and "wd..bzh", over
\* which the sum still carries after its carries are added back.
AskedNames ==
  {<<119, 119, 119, 46, 98, 97, 105, 100, 117, 46, 99, 111, 109>>,
   <<>>, <<46, 97, 46>>,
   <<119, 100, 46, 46, 98, 122, 104>>}

\* The last is the checksum of the question for www.baidu.com.
StackBytes == {<<0, 0>>, <<255, 255>>, <<3, 200>>, <<115, 233>>}

\* The bounds let StuckOnlyWhenFull meet its bound: Stuck is reached.
ASSUME EnoughToFill == 2 + MaxOutside >= UpCap + DownCap + 2

=============================================================================

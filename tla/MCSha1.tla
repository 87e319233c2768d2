------------------------------- MODULE MCSha1 -------------------------------
\* Blocks of eight octets of one bit, the last four two words of two octets:
\* a message of sixteen octets is too long.  The compression keeps everything.
EXTENDS Sha1

MCCompress(h, b) == Append(h, b)
MCIV == <<>>
MCArrays == {<<>>, <<1>>, <<1, 0, 1>>}
=============================================================================

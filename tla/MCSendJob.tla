------------------------------ MODULE MCSendJob ------------------------------
(* Command lines of c2faxsend, two qfiles in a row where it takes them.    *)
EXTENDS SendJob

File(kind, pages, yres) ==
  [kind |-> kind, pages |-> pages, yres |-> yres, breaks |-> FALSE]
two == File("ok", 2, 98)
one == File("ok", 1, 0)
lost == File("missing", 1, 0)
text == File("other", 1, 0)
torn == [one EXCEPT !.breaks = TRUE]

Fax(files) == [files |-> files, poll |-> FALSE, number |-> "ok", res |-> 0]
Poll == [Fax(<<>>) EXCEPT !.poll = TRUE]
Run(format, list) == [format |-> format, jobs |-> list]

MCRuns ==
  {Run("hylafax", list) : list \in
     {<<Fax(<<two, two, two>>), Fax(<<two, one>>)>>, <<Fax(<<one, lost>>), Fax(<<two>>)>>,
      <<Fax(<<one, text>>)>>, <<Fax(<<lost>>), Fax(<<one>>)>>, <<Poll, Poll>>,
      <<Fax(<<text>>), Fax(<<one>>)>>, <<[Fax(<<one>>) EXCEPT !.number = "plus"]>>}}
  \cup {Run("tiff", <<Fax(<<two, one, two>>)>>), Run("sff", <<Fax(<<two>>)>>),
        Run("tiff", <<Fax(<<>>)>>), Run("tiff", <<[Poll EXCEPT !.files = <<one>>]>>),
        Run("g3", <<Poll>>), Run("g3", <<Fax(<<two>>)>>),
        Run("g3", <<Fax(<<two, one>>)>>), Run("g3", <<Fax(<<one, two, one>>)>>),
        Run("sff", <<Fax(<<torn>>)>>), Run("g3", <<Fax(<<torn>>)>>),
        Run("g3", <<Fax(<<one, torn, two>>)>>)}
MCDocs == {1, 2}
=============================================================================

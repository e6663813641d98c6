SPECIFICATION Spec
CONSTANTS
  Cell <- MCCell
  Absent = Absent
  Pad <- MCPad
  V3PageSize = 2
  SignatureSize = 2
  VendorHeaderSize <- MCVendorHeaderSize
  ArgsSize = 3
  ExtraArgsSize = 4
  BuildCommand <- MCBuildCommand
  CertifyCommand <- MCSigned
  Image = {"boot.img", "boot-gz.img"}
  BootSignatureSize = 8
  MetadataSize = 2
  PartitionSizes = {12, 24}
  MaxIgnored = 1
  CertificateLength <- MCCertificateLength
INVARIANTS LoaderFindsSections LoaderFindsFragments CmdlineWhole CertifiesTheBuild FooterCoversCertificates
CHECK_DEADLOCK FALSE

SPECIFICATION LiveSpec
INVARIANT TypeOK
PROPERTIES WifiWithoutEth WifiOffWithEth NetworkTold NamedOnEthernet
